---- MODULE Spec2Model ----
(***************************************************************************)
(* A model of segment: an in-memory, multi-keyspace key/value store served *)
(* over TCP.  The state is the keyspace manager (keyspace.rs), the         *)
(* per-connection tasks and their sockets (server.rs, connection.rs,       *)
(* command.rs), the background evictor tasks (keyspace.rs) and the         *)
(* orchestrator with its two shutdown channels (server.rs, shutdown.rs).   *)
(***************************************************************************)
EXTENDS Integers, Sequences, FiniteSets, TLC

VARIABLES
    keyspaces,   \* KeyspaceManager.keyspaces: name -> id of the Keyspace (its Db)
    dbs,         \* the live Db objects: id -> Db
    next_db,     \* the number of Db objects allocated so far
    now,         \* the reading of the monotonic clock (Instant::now)
    conns,       \* per connection: the task, its ConnectionHandler and its socket
    server,      \* server::start: its position and the senders it still owns
    written      \* per (keyspace name, key): the latest SET or DEL, in lock order

vars == <<keyspaces, dbs, next_db, now, conns, server, written>>

---------------------------------------------------------------------------
(* Bounds of the model.                                                    *)

\* Frames one client sends on its connection.
MaxFrames == 2
\* Readings of the monotonic clock: 0..MaxClock.
MaxClock == 1
\* Requests a pipelining client keeps outstanding (sent, response not yet taken).
MaxPipeline == 2
\* Response frames the socket towards a client holds before a write blocks.
SockCap == 1

\* The most frames a client writes after GET, DEL and SET.
MaxArguments == 4

\* Pieces a byte stream is made of.
MaxParts == 3
\* Bytes one read_buf returns.
MaxRead == 3
\* Pieces a byte stream has after its header line.
MaxAfter == 1

\* The largest sample size a keyspace under sampling is created with.
MaxSample == 3

\* The bytes a client sends after a Blob header.
MaxTail == 4

Conns == {"c1", "c2"}

\* The connection of the client that sends a byte stream.
Sender == "c1"

\* The ids of the Db objects: each CREATE a client sends allocates at most one.
DbIds == 1..(Cardinality(Conns) * MaxFrames)

---------------------------------------------------------------------------
(* Program constants.                                                      *)

MAX_MEMORY_SAMPLE_SIZE == 3

\* --max-memory, handed to KeyspaceManager::new as server_max_memory.
ServerMaxMemory == 1024

---------------------------------------------------------------------------
(* Frames (frame.rs, enum Frame).                                          *)

String(s)  == [type |-> "String", text |-> s]
Blob(b)    == [type |-> "Blob", bytes |-> b]
Integer(i) == [type |-> "Integer", int |-> i]
Null       == [type |-> "Null"]
Array(fs)  == [type |-> "Array", items |-> fs]
Error(m)   == [type |-> "Error", msg |-> m]

\* What a read of the buffer can meet besides a frame: a CRLF-terminated line
\* that frame::parse rejects (ParseError::InvalidFrame).
Garbage == [type |-> "Garbage"]

\* The Display text of ParseError::InvalidFrame.
InvalidFrameText == "ERRPROTOCOL Invalid frame"

\* Option<T>.
None    == [some |-> FALSE]
Some(v) == [some |-> TRUE, val |-> v]

\* Result<T>.
Ok(v)   == [ok |-> TRUE, val |-> v]
Err(e)  == [ok |-> FALSE, err |-> e]

---------------------------------------------------------------------------
(* The command layer: command.rs, Parser and the four parse functions.     *)

\* str::to_uppercase, on the words the clients of this model send.
ToUpper(s) ==
    CASE s = "create" -> "CREATE"
      [] s = "get"    -> "GET"
      [] s = "set"    -> "SET"
      [] s = "del"    -> "DEL"
      [] s = "ev"     -> "EV"
      [] s = "ss"     -> "SS"
      [] s = "lru"    -> "LRU"
      [] s = "random" -> "RANDOM"
      [] s = "noop"   -> "NOOP"
      [] s = "Ev"     -> "EV"
      [] s = "Lru"    -> "LRU"
      [] OTHER        -> s

\* What str::parse::<usize> is not: one that ignores the digits.
ParseUsizeDefault(s) == Ok(MAX_MEMORY_SAMPLE_SIZE)

\* str::parse::<usize>, on the words the clients of this model send.
ParseUsize(s) ==
    CASE s = "0"   -> Ok(0)
      [] s = "1"   -> Ok(1)
      [] s = "2"   -> Ok(2)
      [] s = "100" -> Ok(100)
      [] OTHER     -> Err("invalid digit found in string")

\* Byte strings that are not UTF-8.
InvalidUtf8 == {"<ff>"}

\* The Display text of std::str::Utf8Error for them.
Utf8ErrorText == "invalid utf-8 sequence of 1 bytes from index 0"

\* Parser::next_string on a frame the iterator yields.
NextString(f) ==
    CASE f.type = "String" -> Ok(f.text)
      [] f.type = "Blob"   -> IF f.bytes \in InvalidUtf8 THEN Err(Utf8ErrorText)
                              ELSE Ok(f.bytes)
      [] OTHER             -> Err("ERRPARSE Failed to parse frame as string")

\* Parser::next_blob on a frame the iterator yields.
NextBlob(f) ==
    CASE f.type = "String" -> Ok(f.text)
      [] f.type = "Blob"   -> Ok(f.bytes)
      [] OTHER             -> Err("ERRPARSE Failed to parse frame as blob")

\* Get::parse and Del::parse: KEYSPACE and KEY, and nothing after them.
KeyCommandParse(op, name, args) ==
    IF args = <<>>
    THEN Err("ERRPARSE Invalid command, missing argument 'KEYSPACE'")
    ELSE LET keyspace == NextString(args[1]) IN
         IF ~keyspace.ok THEN keyspace
         ELSE IF Len(args) < 2
         THEN Err("ERRPARSE Invalid command, missing argument 'KEY'")
         ELSE LET key == NextString(args[2]) IN
              IF ~key.ok THEN key
              ELSE IF Len(args) > 2
              THEN Err("ERRPARSE Invalid command, wrong number of arguments for '"
                       \o name \o "'")
              ELSE Ok([op |-> op, keyspace |-> keyspace.val, key |-> key.val])

GetParse(args) == KeyCommandParse("Get", "GET", args)

DelParse(args) == KeyCommandParse("Del", "DEL", args)

\* Set::parse: KEYSPACE, KEY and VALUE, and nothing after them.
SetParse(args) ==
    IF args = <<>>
    THEN Err("ERRPARSE Invalid command, missing argument 'KEYSPACE'")
    ELSE LET keyspace == NextString(args[1]) IN
         IF ~keyspace.ok THEN keyspace
         ELSE IF Len(args) < 2
         THEN Err("ERRPARSE Invalid command, missing argument 'KEY'")
         ELSE LET key == NextString(args[2]) IN
              IF ~key.ok THEN key
              ELSE IF Len(args) < 3
              THEN Err("ERRPARSE Invalid command, missing argument 'VALUE'")
              ELSE LET value == NextBlob(args[3]) IN
                   IF ~value.ok THEN value
                   ELSE IF Len(args) > 3
                   THEN Err("ERRPARSE Invalid command, wrong number of arguments for 'SET'")
                   ELSE Ok([op |-> "Set", keyspace |-> keyspace.val,
                            key |-> key.val, value |-> value.val])

\* Create::parse, the loop that collects the option tokens.
RECURSIVE CreateTokens(_, _)
CreateTokens(rest, tokens) ==
    IF rest = <<>> THEN Ok(tokens)
    ELSE IF Len(tokens) > 4
    THEN Err("ERRPARSE Invalid command, wrong number of arguments for 'CREATE'")
    ELSE LET token == NextString(Head(rest)) IN
         IF ~token.ok THEN token
         ELSE CreateTokens(Tail(rest), Append(tokens, token.val))

\* Create::parse, the loop over the option pairs, from pair i on.
RECURSIVE CreateOptions(_, _, _)
CreateOptions(tokens, i, cmd) ==
    IF i >= Len(tokens) THEN Ok(cmd)
    ELSE LET arg == ToUpper(tokens[i])
             val == ToUpper(tokens[i + 1]) IN
         IF arg = "EV"
         THEN IF val \in {"RANDOM", "NOOP", "LRU"}
              THEN CreateOptions(tokens, i + 2,
                       [cmd EXCEPT !.evictor =
                            CASE val = "RANDOM" -> "Random"
                              [] val = "NOOP"   -> "Noop"
                              [] val = "LRU"    -> "Lru"])
              ELSE Err("ERRPARSE Invalid value '" \o val \o "' for 'EVICTOR'")
         ELSE IF arg = "SS"
         THEN LET sample_size == ParseUsize(val) IN
              IF sample_size.ok
              THEN CreateOptions(tokens, i + 2,
                       [cmd EXCEPT !.max_memory_sample_size = Some(sample_size.val)])
              ELSE Err("ERRPARSE Invalid value '" \o val \o "' for 'SAMPLE SIZE'")
         ELSE Err("ERRPARSE Invalid argument '" \o arg \o "'")

\* Create::parse.
CreateParse(args) ==
    IF args = <<>>
    THEN Err("ERRPARSE Invalid command, missing argument 'KEYSPACE'")
    ELSE LET keyspace == NextString(args[1]) IN
         IF ~keyspace.ok THEN keyspace
         ELSE LET cmd == [op |-> "Create", keyspace |-> keyspace.val,
                          evictor |-> "Noop", max_memory_sample_size |-> None]
                  tokens == CreateTokens(Tail(args), <<>>) IN
              IF ~tokens.ok THEN tokens
              ELSE IF tokens.val = <<>> THEN Ok(cmd)
              ELSE IF Len(tokens.val) % 2 # 0
              THEN Err("ERRPARSE Invalid command, wrong number of arguments for 'CREATE'")
              ELSE LET parsed == CreateOptions(tokens.val, 1, cmd) IN
                   IF ~parsed.ok THEN parsed
                   ELSE IF parsed.val.evictor = "Noop"
                           /\ parsed.val.max_memory_sample_size.some
                   THEN Err("ERRPARSE Invalid command, 'SAMPLE SIZE' not applicable for 'NOOP' evictor")
                   ELSE IF parsed.val.evictor # "Noop"
                           /\ ~parsed.val.max_memory_sample_size.some
                   THEN Ok([parsed.val EXCEPT !.max_memory_sample_size =
                                Some(MAX_MEMORY_SAMPLE_SIZE)])
                   ELSE parsed

\* command::new: a frame to a Command, or the text of the parse error.
CommandNew(frame) ==
    IF frame.type # "Array"
    THEN Err("ERRPARSE Failed to parse frame as array")
    ELSE IF frame.items = <<>>
    THEN Err("ERRPARSE No command was provided to be executed")
    ELSE LET cmd == NextString(frame.items[1]) IN
         IF ~cmd.ok THEN cmd
         ELSE LET command == ToUpper(cmd.val)
                  args == Tail(frame.items) IN
              CASE command = "SET"    -> SetParse(args)
                [] command = "GET"    -> GetParse(args)
                [] command = "DEL"    -> DelParse(args)
                [] command = "CREATE" -> CreateParse(args)
                [] OTHER -> Err("ERRPARSE Unknown command '" \o command \o "'")

---------------------------------------------------------------------------
(* The keyspace manager: keyspace.rs.                                      *)

\* What Value::new is not: one whose last_accessed is the start of the clock.
ValueNewEpoch(data, t) == [data |-> data, last_accessed |-> 0]

\* Value::new.
ValueNew(data, t) == [data |-> data, last_accessed |-> t]

\* Db::new, with the state of the Db's evictor task: its position ("none" until
\* one is spawned), the permit of its Notify, and two locals of
\* sample_and_evict: access_time, and rusage, what pidrusage returned to the
\* get_rss of the pass under way.
DbNew(evictor, server_max_memory, max_memory_sample_size) ==
    [store |-> << >>,
     shutdown |-> FALSE,
     notifier |-> FALSE,
     evictor |-> evictor,
     server_max_memory |-> server_max_memory,
     max_memory_sample_size |-> max_memory_sample_size,
     task |-> "none",
     access_time |-> 0,
     rusage |-> None]

\* What start_evictor is not: one that spawns the evictor task for every Db.
StartEvictorAlways(db) == [db EXCEPT !.task = "loop"]

\* Keyspace::start_evictor: spawns the evictor task unless the evictor is Noop.
StartEvictor(db) ==
    IF db.evictor = "Noop" THEN db ELSE [db EXCEPT !.task = "loop"]

\* What Keyspace::set is not: a set that keeps the value a key already has.
KeyspaceSetIfAbsent(db, key, value, t) ==
    IF key \in DOMAIN db.store THEN db
    ELSE [db EXCEPT !.store = [k \in DOMAIN db.store \cup {key} |->
                                  IF k = key THEN ValueNew(value, t) ELSE db.store[k]]]

\* Keyspace::set: insert or replace under the store lock.
KeyspaceSet(db, key, value, t) ==
    [db EXCEPT !.store = [k \in DOMAIN db.store \cup {key} |->
                             IF k = key THEN ValueNew(value, t) ELSE db.store[k]]]

\* What Keyspace::get is not: a get that finds nothing.
KeyspaceGetMiss(db, key, t) == [db |-> db, value |-> None]

\* Keyspace::get: the value, and last_accessed refreshed, under the store lock.
KeyspaceGet(db, key, t) ==
    IF key \in DOMAIN db.store
    THEN [db |-> [db EXCEPT !.store[key].last_accessed = t],
          value |-> Some(db.store[key].data)]
    ELSE [db |-> db, value |-> None]

\* What Keyspace::del is not: a del that reports the value and leaves it stored.
KeyspaceDelKeep(db, key) ==
    [db |-> db, removed |-> IF key \in DOMAIN db.store THEN 1 ELSE 0]

\* Keyspace::del: remove under the store lock; 1 when there was a value.
KeyspaceDel(db, key) ==
    [db |-> [db EXCEPT !.store = [k \in DOMAIN db.store \ {key} |-> db.store[k]]],
     removed |-> IF key \in DOMAIN db.store THEN 1 ELSE 0]

\* What Db::shutdown is not: one that sets the flag and notifies nobody.
DbShutdownFlagOnly(db) == [db EXCEPT !.shutdown = TRUE]

\* Db::shutdown: set the flag, then notify_one (which stores a permit).
DbShutdown(db) == [db EXCEPT !.shutdown = TRUE, !.notifier = TRUE]

\* A Db is freed when its last Arc goes: the Keyspace's (dropped: the flag is set)
\* and the evictor task's (never spawned, or exited).
Freed(db) == db.shutdown /\ db.task \in {"none", "exited"}

\* The Db objects still referenced.
Live(ds) == [id \in {i \in DOMAIN ds : ~Freed(ds[i])} |-> ds[id]]

\* The error of with_keyspace: anyhow!("ERR keyspace '{}' does not exist", ..).
NoKeyspace(name) == "ERR keyspace '" \o name \o "' does not exist"

\* KeyspaceManager::with_keyspace, the lookup: the Keyspace, or the error.
WithKeyspace(name) ==
    IF name \in DOMAIN keyspaces THEN Ok(keyspaces[name]) ELSE Err(NoKeyspace(name))

\* What the exec functions do not write: the error of with_keyspace as it is.
ExecErrorBare(e) == e

\* The text Get::exec, Set::exec and Del::exec give write_error.
ExecError(e) == "ERREXEC " \o e

---------------------------------------------------------------------------
(* The background evictor: keyspace.rs, start_background_max_memory_evictor *)
(* and sample_and_evict.                                                    *)

\* cfg!(target_os = "linux") of the build that runs.
TargetOsLinux == server.target_os = "linux"

\* What pidrusage can report: a failure, or ri_resident_size.
RssReadings == {Err("pidrusage failed"), Ok(1024), Ok(1024 * 1024)}

\* get_rss: 0 when the observation fails; divided by 1024 on Linux.
GetRss(reading) ==
    LET rss == IF reading.ok THEN reading.val ELSE 0 IN
    IF rss > 0 /\ TargetOsLinux THEN rss \div 1024 ELSE rss

Min(a, b) == IF a <= b THEN a ELSE b

\* The orders in which a HashMap with these keys can be iterated.
IterOrders(keys) ==
    {o \in [1..Cardinality(keys) -> keys] : \A i, j \in DOMAIN o : o[i] = o[j] => i = j}

\* What the loop of sample_and_evict is not: one that picks the first entry
\* of the iteration; one that picks the last.
SampleWalkFirst(db, order, coins, samples, key_to_delete, access_time) ==
    IF order = << >> \/ db.max_memory_sample_size = 0 THEN None
    ELSE Some(order[1])

SampleWalkLast(db, order, coins, samples, key_to_delete, access_time) ==
    IF order = << >> \/ db.max_memory_sample_size = 0 THEN None
    ELSE Some(order[Len(order)])

\* sample_and_evict, the loop over handle.iter().enumerate() from index `samples`
\* on: the key to remove, if any.  coins[i] is whether the i-th random draw of a
\* Random evictor is below 0.5.
RECURSIVE SampleWalk(_, _, _, _, _, _)
SampleWalk(db, order, coins, samples, key_to_delete, access_time) ==
    IF samples >= Len(order) THEN None
    ELSE LET entry == order[samples + 1]
             older == db.store[entry].last_accessed <= access_time
             picked == IF db.evictor = "Random"
                       THEN (IF coins[samples + 1] THEN Some(entry) ELSE key_to_delete)
                       ELSE (IF older THEN Some(entry) ELSE key_to_delete)
             oldest == IF db.evictor # "Random" /\ older
                       THEN db.store[entry].last_accessed ELSE access_time
         IN IF samples + 1 = Min(db.max_memory_sample_size, Len(order))
            THEN picked
            ELSE SampleWalk(db, order, coins, samples + 1, picked, oldest)

\* What sample_and_evict is not: a pass that empties the store.
SampleAndEvictAll(db, order, coins) == [db EXCEPT !.store = << >>]

\* What sample_and_evict is not: a pass that removes nothing.
SampleAndEvictNothing(db, order, coins) == db

\* sample_and_evict from the store lock on: the Db after the pass.
SampleAndEvict(db, order, coins) ==
    LET key == SampleWalk(db, order, coins, 0, None, db.access_time) IN
    IF key.some
    THEN [db EXCEPT !.store = [k \in DOMAIN db.store \ {key.val} |-> db.store[k]]]
    ELSE db

---------------------------------------------------------------------------
(* Frames on the wire: frame.rs, parse, get_line and skip.  A byte is a     *)
(* one-character string, a buffer a sequence of bytes, a cursor a buffer    *)
(* and a position counted from 0.  A frame parsed from bytes has a sequence *)
(* of bytes for the payload of its String, Error or Blob.                   *)

CR == "\r"
LF == "\n"

\* The ASCII digits, in order.
DigitChars == <<"0", "1", "2", "3", "4", "5", "6", "7", "8", "9">>

IsDigit(b) == \E i \in 1..Len(DigitChars) : DigitChars[i] = b

DigitValue(b) == (CHOOSE i \in 1..Len(DigitChars) : DigitChars[i] = b) - 1

\* The length of the longest prefix of bs made of digits.
LeadingDigits(bs) ==
    CHOOSE k \in 0..Len(bs) :
       /\ \A i \in 1..k : IsDigit(bs[i])
       /\ k = Len(bs) \/ ~IsDigit(bs[k + 1])

\* The number the first k bytes of bs spell in radix 10.
RECURSIVE Radix10(_, _)
Radix10(bs, k) ==
    IF k = 0 THEN 0 ELSE Radix10(bs, k - 1) * 10 + DigitValue(bs[k])

\* atoi::<i64>: a "-" and the leading digits; what follows the digits is
\* ignored; None without a digit.  The numbers the clients of this model spell
\* in an Integer frame are far inside an i64.
AtoiI64(bs) ==
    LET neg == bs # << >> /\ bs[1] = "-"
        rest == IF neg THEN Tail(bs) ELSE bs
        k == LeadingDigits(rest) IN
    IF k = 0 THEN None
    ELSE Some(IF neg THEN 0 - Radix10(rest, k) ELSE Radix10(rest, k))

\* A usize has 64 bits.  It is held as four limbs of 16 bits, the least
\* significant first: the sums and products of limbs stay far inside the
\* integers of TLC, which have 32 bits.
UsizeBits == 64

LimbBits == 16

Limb == 2^LimbBits

Limbs == UsizeBits \div LimbBits

\* The usize of a number below 2^31.
Usize(n) == [i \in 1..Limbs |-> CASE i = 1 -> n % Limb
                                  [] i = 2 -> n \div Limb
                                  [] OTHER -> 0]

\* The carry into limb i of w * m + n, for m and n below the size of a limb.
RECURSIVE CarryInto(_, _, _, _)
CarryInto(w, m, n, i) ==
    IF i = 1 THEN n ELSE (w[i - 1] * m + CarryInto(w, m, n, i - 1)) \div Limb

\* usize::overflowing_mul and overflowing_add: w * m + n in 64 bits, and
\* whether the true result is beyond usize::MAX.
OverflowingMulAdd(w, m, n) ==
    [val |-> [i \in 1..Limbs |-> (w[i] * m + CarryInto(w, m, n, i)) % Limb],
     overflow |-> CarryInto(w, m, n, Limbs + 1) # 0]

\* usize::wrapping_neg.
WrappingNeg(w) == OverflowingMulAdd([i \in 1..Limbs |-> Limb - 1 - w[i]], 1, 1).val

\* The bound of the numbers the model counts with: the lengths of its buffers
\* are far below it.
Countable == 2^30

\* Whether a usize is a number the model counts with, and that number.
Fits(w) == w[2] < Countable \div Limb /\ \A i \in 3..Limbs : w[i] = 0

Value(w) == w[1] + w[2] * Limb

\* n < w, for a number n the model counts with.
Below(n, w) == IF Fits(w) THEN n < Value(w) ELSE TRUE

\* checked_mul and checked_add on an Option<usize>: None once a step
\* overflows.
CheckedMulAdd(head, m, n) ==
    IF ~head.some THEN None
    ELSE LET next == OverflowingMulAdd(head.val, m, n) IN
         IF next.overflow THEN None ELSE Some(next.val)

\* The usize the first k bytes of bs spell in radix 10, digit by digit (the
\* set constructor holds the number so far as a value).
RECURSIVE Radix10Usize(_, _)
Radix10Usize(bs, k) ==
    IF k = 0 THEN Some(Usize(0))
    ELSE CHOOSE next \in {CheckedMulAdd(head, 10, DigitValue(bs[k])) :
                             head \in {Radix10Usize(bs, k - 1)}} : TRUE

\* A "-" or none, the number of leading digits after it, and the usize they
\* spell.
SignAndDigits(bs) ==
    LET neg == bs # << >> /\ bs[1] = "-"
        rest == IF neg THEN Tail(bs) ELSE bs IN
    CHOOSE number \in {[neg |-> neg, digits |-> k, n |-> Radix10Usize(rest, k)] :
                          k \in {LeadingDigits(rest)}} : TRUE

\* What atoi::<usize> does not do: take a number below 0, as its two's
\* complement.
AtoiUsizeSigned(bs) ==
    CHOOSE length \in
        {IF number.digits = 0 THEN None
         ELSE IF number.neg /\ number.n.some THEN Some(WrappingNeg(number.n.val))
         ELSE number.n : number \in {SignAndDigits(line) : line \in {bs}}} : TRUE

\* atoi::<usize>: a "-" and the leading digits as atoi::<i64>; None for a
\* number below 0 and for one beyond usize::MAX.
AtoiUsize(bs) ==
    CHOOSE length \in
        {IF number.digits = 0 THEN None
         ELSE IF number.neg /\ number.n.some /\ number.n.val # Usize(0) THEN None
         ELSE number.n : number \in {SignAndDigits(line) : line \in {bs}}} : TRUE

\* ParseError.
IncompleteFrame == "IncompleteFrame"
InvalidFrame == "InvalidFrame"

\* What parse leaves when it panics: no Result; the unwinding goes through
\* parse_frame, read_frame and handle, and ends the task.
Panicked == "panicked"

\* Whether the build has overflow checks (the default of a debug build): an
\* addition of usize that overflows panics there, and wraps elsewhere.
OverflowChecks == server.overflow_checks

\* String::from_utf8 on the bytes of a line: an error when a byte is not UTF-8.
FromUtf8(bs) ==
    IF \E i \in 1..Len(bs) : bs[i] \in InvalidUtf8 THEN Err(InvalidFrame) ELSE Ok(bs)

\* Cursor::remaining.
Remaining(data, pos) == IF pos < Len(data) THEN Len(data) - pos ELSE 0

\* What get_line is not: one that takes the line up to the last CRLF the
\* buffer holds.
GetLineLast(data, pos) ==
    IF Remaining(data, pos) = 0
    THEN [res |-> Err(IncompleteFrame), pos |-> pos]
    ELSE LET start == pos
             end == Len(data) - 1
             found == {i \in start..(end - 1) :
                          data[i + 1] = CR /\ data[i + 2] = LF} IN
         IF found = {}
         THEN [res |-> Err(IncompleteFrame), pos |-> pos]
         ELSE LET i == CHOOSE j \in found : \A k \in found : j >= k IN
              [res |-> Ok(SubSeq(data, start + 1, i)), pos |-> i + 2]

\* get_line: the bytes from the cursor to the first CRLF at or after it, with
\* the cursor moved past that CRLF; IncompleteFrame, with the cursor where it
\* was, when there is none.
GetLine(data, pos) ==
    IF Remaining(data, pos) = 0
    THEN [res |-> Err(IncompleteFrame), pos |-> pos]
    ELSE LET start == pos
             end == Len(data) - 1
             found == {i \in start..(end - 1) :
                          data[i + 1] = CR /\ data[i + 2] = LF} IN
         IF found = {}
         THEN [res |-> Err(IncompleteFrame), pos |-> pos]
         ELSE LET i == CHOOSE j \in found : \A k \in found : j <= k IN
              [res |-> Ok(SubSeq(data, start + 1, i)), pos |-> i + 2]

\* What skip does not do: stop two bytes short of n.
SkipShort(n, data, pos) ==
    IF Remaining(data, pos) < n
    THEN [res |-> Err(IncompleteFrame), pos |-> pos]
    ELSE [res |-> Ok(n), pos |-> pos + n - 2]

\* skip: the cursor n bytes ahead, or IncompleteFrame with the cursor where it
\* was.
Skip(n, data, pos) ==
    IF Remaining(data, pos) < n
    THEN [res |-> Err(IncompleteFrame), pos |-> pos]
    ELSE [res |-> Ok(n), pos |-> pos + n]

\* The Blob arm of parse after atoi.  `length + 2` is an addition of usize,
\* and `cursor.chunk()[..length]` panics for a length beyond the chunk.
ParseBlob(checks, length, data, at) ==
    IF ~length.some THEN [res |-> Err(InvalidFrame), pos |-> at]
    ELSE LET sum == OverflowingMulAdd(length.val, 1, 2) IN
         IF sum.overflow /\ checks
         THEN [res |-> Err(Panicked), pos |-> at]
         ELSE IF Below(Remaining(data, at), sum.val)
         THEN [res |-> Err(IncompleteFrame), pos |-> at]
         ELSE IF Below(Remaining(data, at), length.val)
         THEN [res |-> Err(Panicked), pos |-> at]
         ELSE [res |-> Ok(Blob(SubSeq(data, at + 1, at + Value(length.val)))),
               pos |-> Skip(Value(sum.val), data, at).pos]

\* parse in a build with overflow checks or without (checks), and the for loop
\* of its Array arm (n children still to parse, values the ones parsed): the
\* frame and the cursor after it, or the error and the cursor where the
\* failing call left it.  In the Array arm a length the model
\* does not count with, which no header of its clients declares, is the
\* capacity overflow of Vec::with_capacity.
RECURSIVE ParseBuilt(_, _, _), ParseLine(_, _, _), ParseChildren(_, _, _, _, _)
ParseBuilt(checks, data, pos) ==
    CHOOSE cursor \in {ParseLine(checks, line, data) : line \in {GetLine(data, pos)}} : TRUE

\* parse after get_line, whose result a bound variable holds as a value.
ParseLine(checks, line, data) ==
    IF ~line.res.ok THEN line
    ELSE IF line.res.val = << >>
    THEN [res |-> Err(InvalidFrame), pos |-> line.pos]
    ELSE
    LET type_identifier == line.res.val[1]
        frame_data == Tail(line.res.val)
        at == line.pos IN
    CASE type_identifier = "$" ->
            LET text == FromUtf8(frame_data) IN
            [res |-> IF text.ok THEN Ok(String(text.val)) ELSE text, pos |-> at]
      [] type_identifier = "%" ->
            LET n == AtoiI64(frame_data) IN
            [res |-> IF n.some THEN Ok(Integer(n.val)) ELSE Err(InvalidFrame),
             pos |-> at]
      [] type_identifier = "!" ->
            LET text == FromUtf8(frame_data) IN
            [res |-> IF text.ok THEN Ok(Error(text.val)) ELSE text, pos |-> at]
      [] type_identifier = "*" ->
            IF frame_data = <<"-", "1">>
            THEN LET skipped == Skip(2, data, at) IN
                 [res |-> IF skipped.res.ok THEN Ok(Null) ELSE skipped.res,
                  pos |-> skipped.pos]
            ELSE CHOOSE cursor \in {ParseBlob(checks, length, data, at) :
                                       length \in {AtoiUsize(frame_data)}} : TRUE
      [] type_identifier = "#" ->
            CHOOSE cursor \in {IF ~length.some THEN [res |-> Err(InvalidFrame), pos |-> at]
                                ELSE IF ~Fits(length.val)
                                THEN [res |-> Err(Panicked), pos |-> at]
                                ELSE ParseChildren(checks, data, at, Value(length.val), << >>) :
                                   length \in {AtoiUsize(frame_data)}} : TRUE
      [] OTHER -> [res |-> Err(InvalidFrame), pos |-> at]

\* What the loop does not do: take a child that is an Array.
ParseChildrenNested(checks, data, pos, n, values) ==
    IF n = 0 THEN [res |-> Ok(Array(values)), pos |-> pos]
    ELSE LET child == ParseBuilt(checks, data, pos) IN
         IF ~child.res.ok THEN child
         ELSE ParseChildren(checks, data, child.pos, n - 1, Append(values, child.res.val))

ParseChildren(checks, data, pos, n, values) ==
    IF n = 0 THEN [res |-> Ok(Array(values)), pos |-> pos]
    ELSE CHOOSE cursor \in
            {IF ~child.res.ok THEN child
             ELSE IF child.res.val.type = "Array"
             THEN [res |-> Err(InvalidFrame), pos |-> child.pos]
             ELSE ParseChildren(checks, data, child.pos, n - 1,
                                Append(values, child.res.val)) :
                child \in {ParseBuilt(checks, data, pos)}} : TRUE

\* parse, in the build of the server.
Parse(data, pos) == ParseBuilt(OverflowChecks, data, pos)

---------------------------------------------------------------------------
(* Frames written: connection.rs, write_frame and write.                   *)

\* usize::to_string and i64::to_string, as bytes.
RECURSIVE NatToString(_)
NatToString(n) ==
    IF n < 10 THEN <<DigitChars[n + 1]>>
    ELSE Append(NatToString(n \div 10), DigitChars[(n % 10) + 1])

\* What to_string does not do: leave out the sign.
IntToStringAbs(n) == NatToString(IF n < 0 THEN 0 - n ELSE n)

IntToString(n) == IF n < 0 THEN <<"-">> \o NatToString(0 - n) ELSE NatToString(n)

\* write: the bytes of a frame that is no Array; for an Array, unreachable!().
Write(frame) ==
    CASE frame.type = "String"  -> Ok(<<"$">> \o frame.text \o <<CR, LF>>)
      [] frame.type = "Integer" -> Ok(<<"%">> \o IntToString(frame.int) \o <<CR, LF>>)
      [] frame.type = "Error"   -> Ok(<<"!">> \o frame.msg \o <<CR, LF>>)
      [] frame.type = "Null"    -> Ok(<<"*", "-", "1", CR, LF, CR, LF>>)
      [] frame.type = "Blob"    ->
            Ok(<<"*">> \o NatToString(Len(frame.bytes)) \o <<CR, LF>>
                  \o frame.bytes \o <<CR, LF>>)
      [] OTHER -> Err("unreachable")

\* write_frame's loop over the children of an Array, after the bytes so far.
RECURSIVE WriteValues(_, _)
WriteValues(values, sofar) ==
    IF values = << >> THEN Ok(sofar)
    ELSE LET value == Write(Head(values)) IN
         IF ~value.ok THEN value
         ELSE WriteValues(Tail(values), sofar \o value.val)

\* write_frame: the bytes it puts on the stream.
WriteFrame(frame) ==
    IF frame.type = "Array"
    THEN WriteValues(frame.items,
                     <<"#">> \o NatToString(Len(frame.items)) \o <<CR, LF>>)
    ELSE Write(frame)

---------------------------------------------------------------------------
(* The read side of a Connection: connection.rs, parse_frame.              *)

\* The text a sequence of bytes spells.
RECURSIVE Cat(_)
Cat(bs) == IF bs = << >> THEN "" ELSE Head(bs) \o Cat(Tail(bs))

\* The frame as the command layer of this model reads it: the text of a String
\* or an Error, the bytes of a Blob as the text they spell, and for a Blob that
\* is not UTF-8 the byte string of InvalidUtf8.
RECURSIVE FrameText(_)
FrameText(frame) ==
    CASE frame.type = "String" -> String(Cat(frame.text))
      [] frame.type = "Error"  -> Error(Cat(frame.msg))
      [] frame.type = "Blob"   ->
            Blob(IF FromUtf8(frame.bytes).ok THEN Cat(frame.bytes)
                 ELSE CHOOSE b \in InvalidUtf8 : TRUE)
      [] frame.type = "Array"  ->
            Array([i \in 1..Len(frame.items) |-> FrameText(frame.items[i])])
      [] OTHER -> frame

\* BytesMut::advance: the buffer without its first n bytes.
Advance(buffer, n) == SubSeq(buffer, n + 1, Len(buffer))

\* What parse_frame does not do: advance the buffer over an incomplete frame.
ParseFrameAdvancing(buffer) ==
    LET cursor == Parse(buffer, 0) IN
    IF cursor.res.ok
    THEN [res |-> Ok(Some(cursor.res.val)), buffer |-> Advance(buffer, cursor.pos)]
    ELSE IF cursor.res.err = IncompleteFrame
    THEN [res |-> Ok(None), buffer |-> Advance(buffer, cursor.pos)]
    ELSE [res |-> Err(cursor.res.err), buffer |-> Advance(buffer, cursor.pos)]

\* What parse_frame does not do: leave an invalid frame in the buffer.
ParseFrameKeeping(buffer) ==
    LET cursor == Parse(buffer, 0) IN
    IF cursor.res.ok
    THEN [res |-> Ok(Some(cursor.res.val)), buffer |-> Advance(buffer, cursor.pos)]
    ELSE IF cursor.res.err = IncompleteFrame
    THEN [res |-> Ok(None), buffer |-> buffer]
    ELSE [res |-> Err(cursor.res.err), buffer |-> buffer]

\* parse_frame: frame::parse on a new cursor over the buffer.  A frame and an
\* InvalidFrame advance the buffer to the cursor; an IncompleteFrame is
\* Ok(None) and leaves the buffer as it is.  A panic of parse goes through.
ParseFrame(buffer) ==
    CHOOSE parsed \in
       {IF cursor.res.ok
        THEN [res |-> Ok(Some(cursor.res.val)), buffer |-> Advance(buffer, cursor.pos)]
        ELSE IF cursor.res.err = IncompleteFrame
        THEN [res |-> Ok(None), buffer |-> buffer]
        ELSE IF cursor.res.err = Panicked
        THEN [res |-> Err(Panicked), buffer |-> buffer]
        ELSE [res |-> Err(cursor.res.err), buffer |-> Advance(buffer, cursor.pos)] :
           cursor \in {Parse(buffer, 0)}} : TRUE

\* The text of the error read_frame returns at the end of a stream that left
\* bytes in the buffer.
ResetByPeerText == "connection reset by peer"

\* What read_frame does not do: return None whatever the buffer holds.
EndOfStreamClean(buffer) == Ok(None)

\* read_frame after read_buf returned 0: None for an empty buffer, the
\* reset-by-peer error otherwise.
EndOfStream(buffer) ==
    IF buffer = << >> THEN Ok(None) ELSE Err(ResetByPeerText)

---------------------------------------------------------------------------
(* The clients.                                                            *)

\* A command as the interactive client frames it: an Array of String frames.
Cmd(words) == Array([i \in 1..Len(words) |-> String(words[i])])

\* What a client that waits for each response sends.
Requests ==
    {Cmd(<<"CREATE", "foo">>),
     Cmd(<<"create", "foo", "ev", "lru">>),
     Cmd(<<"CREATE", "foo", "EV", "RANDOM", "SS", "1">>),
     Cmd(<<"GET", "foo", "k1">>),
     Cmd(<<"SET", "foo", "k1", "v1">>),
     Array(<<String("set"), String("foo"), String("k1"), Blob("v2")>>),
     Cmd(<<"DEL", "foo", "k1">>),
     Cmd(<<"GET", "foo">>),
     Garbage}

\* The pieces of the byte streams a client sends: frames, headers of frames,
\* payloads and lines that are no frame.  <ff> is a byte that is not UTF-8.
Pieces ==
    <<  <<"$", "a", CR, LF>>,
        <<"$", "C", "R", "E", "A", "T", "E", CR, LF>>,
        <<"$", "f", "o", "o", CR, LF>>,
        <<"$", "<ff>", CR, LF>>,
        <<"%", "-", "1", "2", "x", CR, LF>>,
        <<"%", "x", CR, LF>>,
        <<"!", "e", CR, LF>>,
        <<"*", "-", "1", CR, LF>>,
        <<"*", "3", CR, LF>>,
        <<"*", "1", CR, LF, "<ff>", CR, LF>>,
        <<"#", "0", CR, LF>>,
        <<"#", "1", CR, LF>>,
        <<"#", "2", CR, LF>>,
        <<"a", CR, LF>>,
        <<CR, LF>>  >>

\* The pieces one after the other.
RECURSIVE Concat(_)
Concat(parts) == IF parts = << >> THEN << >> ELSE Pieces[Head(parts)] \o Concat(Tail(parts))

\* The byte streams a client sends: up to MaxParts pieces.
Streams ==
    {Concat(parts) : parts \in UNION {[1..n -> 1..Len(Pieces)] : n \in 0..MaxParts}}

\* The header lines a client sends first, without their CRLF: lines of every
\* tag with an empty body, with a number, a negative number, a number and
\* bytes after it and bytes that are no number, lines with another tag, and
\* the empty line.
HeaderLines ==
    {<< >>, <<"a">>, <<"?", "x">>, <<"1">>, <<"-", "1">>, <<"+", "1">>,
     <<"$">>, <<"$", "a">>, <<"!">>, <<"!", "e">>,
     <<"%">>, <<"%", "x">>, <<"%", "x", "1">>, <<"%", "7">>, <<"%", "-", "7">>,
     <<"%", "7", "x">>,
     <<"*">>, <<"*", "x">>, <<"*", "x", "1">>, <<"*", "-", "5">>,
     <<"*", "-", "1", "0">>, <<"*", "-", "1">>, <<"*", "0">>, <<"*", "1", "x">>,
     <<"#">>, <<"#", "x">>, <<"#", "x", "1">>, <<"#", "-", "1">>,
     <<"#", "-", "2">>, <<"#", "0">>, <<"#", "1", "x">>}

\* The byte streams that begin with one of the header lines and go on with up
\* to MaxAfter pieces.
LineStreams ==
    {line \o <<CR, LF>> \o Concat(parts) :
        line \in HeaderLines,
        parts \in UNION {[1..n -> 1..Len(Pieces)] : n \in 0..MaxAfter}}

\* What a client that sends ahead of the responses sends.
PipelineRequests ==
    {Cmd(<<"CREATE", "foo">>),
     Cmd(<<"GET", "foo", "k1">>),
     Cmd(<<"GET", "foo">>),
     Garbage}

\* The option pairs a client writes after the keyspace name of a CREATE: the
\* two options in both cases and as Blobs, and pairs Create::parse refuses.
OptionPairs ==
    {<<String("EV"), String("RANDOM")>>,
     <<String("ev"), String("lru")>>,
     <<String("Ev"), String("Lru")>>,
     <<Blob("EV"), Blob("noop")>>,
     <<String("EV"), String("BAD")>>,
     <<String("SS"), String("1")>>,
     <<String("ss"), Blob("2")>>,
     <<String("SS"), String("0")>>,
     <<String("SS"), String("X")>>,
     <<String("SS"), String("-1")>>,
     <<String("XX"), String("1")>>}

\* What a client writes after the last pair: nothing, or one frame more.
OptionTails ==
    {<< >>, <<String("EV")>>, <<String("X")>>, <<Blob("<ff>")>>, <<Integer(1)>>}

\* The CREATE commands: a keyspace name, up to two option pairs and a tail;
\* three pairs; no name, and names that are no string.
CreateCommands ==
    {Array(head \o p1 \o p2 \o tail) :
        head \in {<<String("CREATE"), String("foo")>>,
                  <<String("create"), Blob("foo")>>},
        p1 \in OptionPairs \cup {<< >>},
        p2 \in OptionPairs \cup {<< >>},
        tail \in OptionTails}
    \cup {Cmd(<<"CREATE", "foo", "EV", "LRU", "SS", "1", "EV", "RANDOM">>),
          Cmd(<<"CREATE", "foo", "EV", "LRU", "SS", "1", "EV", "RANDOM", "SS">>),
          Cmd(<<"CREATE">>),
          Array(<<String("CREATE"), Blob("<ff>")>>),
          Array(<<String("CREATE"), Integer(1)>>)}

\* The frames a client writes after GET, DEL and SET.
Arguments ==
    {String("foo"), String("k1"), Blob("v2"), Blob("<ff>"), Integer(1)}

\* GET, DEL and SET with up to MaxArguments arguments.
KeyCommands ==
    {Array(<<String(name)>> \o args) :
        name \in {"GET", "del", "SET"},
        args \in UNION {[1..n -> Arguments] : n \in 0..MaxArguments}}

\* Frames that are no command: frames that are no Array, the empty Array,
\* names of no command and first children that are no string.
NoCommands ==
    {String("GET"), Blob("GET"), Integer(1), Null, Error("GET"),
     Array(<< >>),
     Cmd(<<"PING">>),
     Cmd(<<"FOO", "foo", "k1">>),
     Array(<<Integer(1), String("foo"), String("k1")>>),
     Array(<<Blob("<ff>"), String("foo"), String("k1")>>)}

\* What the client of the command layer sends as its last frame.
Commands == CreateCommands \cup KeyCommands \cup NoCommands

---------------------------------------------------------------------------
(* The state after construction.                                           *)

\* A connection not yet accepted.  Of the Connection: buffer (the complete
\* frames read from the socket and not yet parsed), out (the frames written to
\* the socket and not yet taken by the client), peer (the client's end).  Of the
\* ConnectionHandler: shutdown (its ShutdownListener's flag), tx (its completion
\* sender).  Of the task: pc, command, response.  Of the client: sent and
\* requests (those sent whose response it has not taken yet).  late counts the
\* commands whose response the task wrote after the broadcast sender was dropped.
\* For a client that sends bytes: stream (the bytes sent that read_buf has not
\* returned yet) and bytes (the Connection's buffer, a BytesMut).
ConnInit ==
    [pc |-> "none", buffer |-> << >>, command |-> None, response |-> None,
     shutdown |-> FALSE, tx |-> FALSE, out |-> << >>, peer |-> "open",
     sent |-> 0, requests |-> << >>, late |-> 0,
     stream |-> << >>, bytes |-> << >>]

\* Server::new, and start at its select!, in a release build for Linux run
\* with the default of --max-memory.
ServerInit ==
    [pc |-> "accept", shutdown_notifier |-> TRUE, shutdown_complete_tx |-> TRUE,
     target_os |-> "linux", overflow_checks |-> FALSE,
     max_memory |-> ServerMaxMemory]

Init ==
    /\ keyspaces = << >>
    /\ dbs = << >>
    /\ next_db = 0
    /\ now = 0
    /\ conns = [c \in Conns |-> ConnInit]
    /\ server = ServerInit
    /\ written = << >>

\* The same, with a client that has connected and sent a byte stream.
FrameInit ==
    /\ keyspaces = << >>
    /\ dbs = << >>
    /\ next_db = 0
    /\ now = 0
    /\ \E stream \in Streams :
          conns = [c \in Conns |->
                      IF c = Sender THEN [ConnInit EXCEPT !.stream = stream]
                      ELSE ConnInit]
    /\ server = ServerInit
    /\ written = << >>

\* The same, with a client whose byte stream begins with a header line.
LineInit ==
    /\ keyspaces = << >>
    /\ dbs = << >>
    /\ next_db = 0
    /\ now = 0
    /\ \E first \in LineStreams :
          conns = [c \in Conns |->
                      IF c = Sender THEN [ConnInit EXCEPT !.stream = first]
                      ELSE ConnInit]
    /\ server = ServerInit
    /\ written = << >>

\* The targets the server is built for, and the values of --max-memory it is
\* run with.
TargetOs == {"linux", "macos"}

MaxMemories == {0, 1, ServerMaxMemory}

\* A server of either build, run with one of the values of --max-memory.
EvictorInit ==
    /\ keyspaces = << >>
    /\ dbs = << >>
    /\ next_db = 0
    /\ now = 0
    /\ conns = [c \in Conns |-> ConnInit]
    /\ server \in {[ServerInit EXCEPT !.target_os = os, !.max_memory = cap] :
                      os \in TargetOs, cap \in MaxMemories}
    /\ written = << >>

\* The keys of the stores under sampling.
Keys == {"k1", "k2", "k3"}

\* The stores a keyspace can hold at time t after SETs of "v1" and GETs: any
\* of the keys, each last accessed at some reading of the clock up to t.
Stores(t) ==
    UNION {[keys -> {ValueNew("v1", at) : at \in 0..t}] : keys \in SUBSET Keys}

\* The record of the SETs that filled the stores of foo and bar.
WrittenFor(foo, bar) ==
    [nk \in ({"foo"} \X DOMAIN foo) \cup ({"bar"} \X DOMAIN bar) |->
        [op |-> "Set", value |-> "v1", prev |-> None, lost |-> FALSE]]

\* A server run with --max-memory 1 after `CREATE foo EV e SS n`, `CREATE bar`
\* and SETs and GETs on both: foo with any evictor, sample size and store and
\* its evictor task at its loop, bar with one key.
SampleInit ==
    /\ now \in 0..MaxClock
    /\ keyspaces = [name \in {"foo", "bar"} |-> IF name = "foo" THEN 1 ELSE 2]
    /\ next_db = 2
    /\ conns = [c \in Conns |-> ConnInit]
    /\ server = [ServerInit EXCEPT !.max_memory = 1]
    /\ \E evictor \in {"Random", "Lru"}, size \in 0..MaxSample, store \in Stores(now) :
          LET foo == [StartEvictor(DbNew(evictor, 1, size)) EXCEPT !.store = store]
              bar == KeyspaceSet(StartEvictor(DbNew("Noop", 1, 0)), "k1", "v1", 0) IN
          /\ dbs = <<foo, bar>>
          /\ written = WrittenFor(foo.store, bar.store)

---------------------------------------------------------------------------
(* The record of the latest SET or DEL of each key of each keyspace name.   *)

LastSet(name, key, value) ==
    LET nk == <<name, key>>
        prev == IF nk \in DOMAIN written /\ written[nk].op = "Set" /\ ~written[nk].lost
                THEN Some(written[nk].value) ELSE None
    IN [x \in DOMAIN written \cup {nk} |->
           IF x = nk THEN [op |-> "Set", value |-> value, prev |-> prev, lost |-> FALSE]
           ELSE written[x]]

\* prev is the value the DEL removed, or the one the DELs before it removed since
\* the last SET.
LastDel(name, key, removed) ==
    LET nk == <<name, key>> IN
    [x \in DOMAIN written \cup {nk} |->
        IF x = nk
        THEN [op |-> "Del", value |-> "",
              prev |-> IF removed.some THEN removed
                       ELSE IF nk \in DOMAIN written /\ written[nk].op = "Del"
                            THEN written[nk].prev ELSE None,
              lost |-> FALSE]
        ELSE written[x]]

\* The entries the given (name, key) pairs held are gone without a DEL.
Lost(pairs) ==
    [x \in DOMAIN written |->
        IF x \in pairs /\ written[x].op = "Set"
        THEN [written[x] EXCEPT !.lost = TRUE] ELSE written[x]]

---------------------------------------------------------------------------
(* The clients' steps.                                                     *)

\* A client that waits for each response sends its next request.
ClientRequest(c) ==
    /\ conns[c].pc # "none"
    /\ conns[c].peer = "open"
    /\ conns[c].requests = << >>
    /\ conns[c].sent < MaxFrames
    /\ \E f \in Requests :
          conns' = [conns EXCEPT ![c].buffer = Append(@, f),
                                 ![c].requests = Append(@, f),
                                 ![c].sent = @ + 1]
    /\ UNCHANGED <<keyspaces, dbs, next_db, now, server, written>>

\* A client that waits for each response sends, as the last frame of its
\* connection, one of Commands.
ClientCommand(c) ==
    /\ conns[c].pc # "none"
    /\ conns[c].peer = "open"
    /\ conns[c].requests = << >>
    /\ conns[c].sent = MaxFrames - 1
    /\ \E f \in Commands :
          conns' = [conns EXCEPT ![c].buffer = Append(@, f),
                                 ![c].requests = Append(@, f),
                                 ![c].sent = @ + 1]
    /\ UNCHANGED <<keyspaces, dbs, next_db, now, server, written>>

\* A client that sends ahead of the responses sends its next request.
ClientPipeline(c) ==
    /\ conns[c].pc # "none"
    /\ conns[c].peer = "open"
    /\ Len(conns[c].requests) < MaxPipeline
    /\ conns[c].sent < MaxFrames
    /\ \E f \in PipelineRequests :
          conns' = [conns EXCEPT ![c].buffer = Append(@, f),
                                 ![c].requests = Append(@, f),
                                 ![c].sent = @ + 1]
    /\ UNCHANGED <<keyspaces, dbs, next_db, now, server, written>>

\* A client takes the next response frame off its socket.
ClientRecv(c) ==
    /\ conns[c].out # << >>
    /\ conns' = [conns EXCEPT ![c].out = Tail(@),
                              ![c].requests = IF @ = << >> THEN @ ELSE Tail(@)]
    /\ UNCHANGED <<keyspaces, dbs, next_db, now, server, written>>

\* A client closes its connection: the server's reads reach the end of the
\* stream, and its writes fail once the client's end is gone for good.
ClientClose(c) ==
    /\ conns[c].pc # "none"
    /\ conns[c].peer = "open"
    /\ conns' = [conns EXCEPT ![c].peer = "closed"]
    /\ UNCHANGED <<keyspaces, dbs, next_db, now, server, written>>

---------------------------------------------------------------------------
(* The per-connection task: server.rs, ConnectionHandler::handle.          *)

\* What handle does not do after write_error: return.
ContinueReturn(h) == "returned"

\* The test of the while loop: the position the task goes to.
LoopTest(h) == IF h.shutdown THEN "returned" ELSE "select"

\* Where handle goes after write_error succeeded: `continue`.
Continue(h) == LoopTest(h)

\* Server::start, one turn of the accept loop: ConnectionHandler::new with a
\* subscription and a clone of the completion sender, and the task spawned.
Accept(c) ==
    /\ server.pc = "accept"
    /\ conns[c].pc = "none"
    /\ conns' = [conns EXCEPT ![c].tx = TRUE, ![c].pc = LoopTest(conns[c])]
    /\ UNCHANGED <<keyspaces, dbs, next_db, now, server, written>>

\* What parse_frame does not do: take the frame that arrived last.
TakeFrameLast(h) ==
    LET item == h.buffer[Len(h.buffer)]
        taken == [h EXCEPT !.buffer = SubSeq(@, 1, Len(@) - 1)] IN
    IF item = [type |-> "Garbage"]
    THEN [taken EXCEPT !.pc = "write_error",
                       !.response = Some(Error(InvalidFrameText))]
    ELSE LET cmd == CommandNew(item) IN
         IF cmd.ok
         THEN [taken EXCEPT !.pc = "exec", !.command = Some(cmd.val)]
         ELSE [taken EXCEPT !.pc = "write_error", !.response = Some(Error(cmd.err))]

\* The read_frame branch of select! wins with a complete frame in the buffer:
\* Connection::parse_frame advances the buffer; an InvalidFrame and a
\* command::new error go to write_error, a command goes to command::exec.
TakeFrame(h) ==
    LET item == Head(h.buffer)
        taken == [h EXCEPT !.buffer = Tail(@)] IN
    IF item = Garbage
    THEN [taken EXCEPT !.pc = "write_error", !.response = Some(Error(InvalidFrameText))]
    ELSE LET cmd == CommandNew(item) IN
         IF cmd.ok
         THEN [taken EXCEPT !.pc = "exec", !.command = Some(cmd.val)]
         ELSE [taken EXCEPT !.pc = "write_error", !.response = Some(Error(cmd.err))]

ReadFrame(c) ==
    /\ conns[c].pc = "select"
    /\ conns[c].buffer # << >>
    /\ conns' = [conns EXCEPT ![c] = TakeFrame(conns[c])]
    /\ UNCHANGED <<keyspaces, dbs, next_db, now, server, written>>

\* The read_frame branch wins at the end of the stream with an empty buffer:
\* read_buf returns 0, read_frame returns None and handle returns.
ReadEof(c) ==
    /\ conns[c].pc = "select"
    /\ conns[c].buffer = << >>
    /\ conns[c].peer = "closed"
    /\ conns' = [conns EXCEPT ![c].pc = "returned"]
    /\ UNCHANGED <<keyspaces, dbs, next_db, now, server, written>>

\* read_frame on the bytes of the buffer, up to the await of read_buf:
\* parse_frame returns a frame, which goes to command::new as in TakeFrame, or
\* an InvalidFrame, which goes to write_error.
ReadFrameBytes(c) ==
    LET h == conns[c]
        parsed == ParseFrame(h.bytes) IN
    /\ h.pc = "select"
    /\ parsed.res # Ok(None)
    /\ parsed.res # Err(Panicked)
    /\ conns' = [conns EXCEPT ![c] =
                    TakeFrame([h EXCEPT !.bytes = parsed.buffer,
                                        !.buffer = IF parsed.res.ok
                                                   THEN <<FrameText(parsed.res.val.val)>>
                                                   ELSE <<Garbage>>])]
    /\ UNCHANGED <<keyspaces, dbs, next_db, now, server, written>>

\* read_frame on the bytes of the buffer when frame::parse panics: the task
\* unwinds out of handle, and the runtime keeps the panic for a JoinHandle
\* nobody holds.
ReadPanic(c) ==
    LET h == conns[c] IN
    /\ h.pc = "select"
    /\ ParseFrame(h.bytes).res = Err(Panicked)
    /\ conns' = [conns EXCEPT ![c].pc = "panicked"]
    /\ UNCHANGED <<keyspaces, dbs, next_db, now, server, written>>

\* read_frame after parse_frame returned None: read_buf appends the bytes it
\* read to the buffer, and the loop goes back to parse_frame.
ReadBuf(c) ==
    LET h == conns[c]
        parsed == ParseFrame(h.bytes) IN
    /\ h.pc = "select"
    /\ parsed.res = Ok(None)
    /\ \E n \in 1..Min(MaxRead, Len(h.stream)) :
          conns' = [conns EXCEPT ![c].bytes = parsed.buffer \o SubSeq(h.stream, 1, n),
                                 ![c].stream = Advance(@, n)]
    /\ UNCHANGED <<keyspaces, dbs, next_db, now, server, written>>

\* read_frame after parse_frame returned None, at the end of the stream:
\* read_buf returns 0.  With an empty buffer read_frame returns None and handle
\* returns; with bytes in the buffer it returns the reset-by-peer error, which
\* goes to write_error.
ReadClosed(c) ==
    LET h == conns[c]
        parsed == ParseFrame(h.bytes) IN
    /\ h.pc = "select"
    /\ parsed.res = Ok(None)
    /\ h.stream = << >>
    /\ h.peer = "closed"
    /\ conns' = [conns EXCEPT ![c] =
                    LET frame == EndOfStream(parsed.buffer) IN
                    IF frame.ok
                    THEN [h EXCEPT !.bytes = parsed.buffer, !.pc = "returned"]
                    ELSE [h EXCEPT !.bytes = parsed.buffer, !.pc = "write_error",
                                   !.response = Some(Error(frame.err))]]
    /\ UNCHANGED <<keyspaces, dbs, next_db, now, server, written>>

\* shutdown.rs, ShutdownListener::listen is ready: recv() returns once the
\* broadcast sender is dropped (nothing is ever sent).
ListenReady == ~server.shutdown_notifier

\* The listen branch of select! wins: the flag is set and handle returns.
SelectShutdown(c) ==
    /\ conns[c].pc = "select"
    /\ ListenReady
    /\ conns' = [conns EXCEPT ![c].shutdown = TRUE, ![c].pc = "returned"]
    /\ UNCHANGED <<keyspaces, dbs, next_db, now, server, written>>

\* The spawned task ends: the ConnectionHandler is dropped, and with it its
\* completion sender and its Connection (the buffer and the socket).
HandlerDrop(h) ==
    [h EXCEPT !.pc = "exited", !.tx = FALSE, !.buffer = << >>, !.out = << >>,
              !.peer = "closed", !.requests = << >>, !.sent = 0,
              !.stream = << >>, !.bytes = << >>]

TaskExit(c) ==
    /\ conns[c].pc \in {"returned", "failed", "panicked"}
    /\ conns' = [conns EXCEPT ![c] = HandlerDrop(conns[c])]
    /\ UNCHANGED <<keyspaces, dbs, next_db, now, server, written>>

---------------------------------------------------------------------------
(* command::exec and the four exec functions: command.rs.                  *)

\* Get::exec up to its write: with_keyspace around Keyspace::get.
GetExec(c) ==
    LET h == conns[c]
        cmd == h.command.val
        keyspace == WithKeyspace(cmd.keyspace) IN
    /\ h.pc = "exec"
    /\ cmd.op = "Get"
    /\ IF keyspace.ok
       THEN LET got == KeyspaceGet(dbs[keyspace.val], cmd.key, now) IN
            /\ dbs' = [dbs EXCEPT ![keyspace.val] = got.db]
            /\ conns' = [conns EXCEPT ![c].pc = "write",
                            ![c].response = Some(IF got.value.some
                                                 THEN Blob(got.value.val) ELSE Null)]
       ELSE /\ dbs' = dbs
            /\ conns' = [conns EXCEPT ![c].pc = "write",
                            ![c].response = Some(Error(ExecError(keyspace.err)))]
    /\ UNCHANGED <<keyspaces, next_db, now, server, written>>

\* Set::exec up to its write: with_keyspace around Keyspace::set.
SetExec(c) ==
    LET h == conns[c]
        cmd == h.command.val
        keyspace == WithKeyspace(cmd.keyspace) IN
    /\ h.pc = "exec"
    /\ cmd.op = "Set"
    /\ IF keyspace.ok
       THEN /\ dbs' = [dbs EXCEPT ![keyspace.val] = KeyspaceSet(@, cmd.key, cmd.value, now)]
            /\ written' = LastSet(cmd.keyspace, cmd.key, cmd.value)
            /\ conns' = [conns EXCEPT ![c].pc = "write",
                                      ![c].response = Some(Integer(1))]
       ELSE /\ dbs' = dbs
            /\ written' = written
            /\ conns' = [conns EXCEPT ![c].pc = "write",
                            ![c].response = Some(Error(ExecError(keyspace.err)))]
    /\ UNCHANGED <<keyspaces, next_db, now, server>>

\* Del::exec up to its write: with_keyspace around Keyspace::del.
DelExec(c) ==
    LET h == conns[c]
        cmd == h.command.val
        keyspace == WithKeyspace(cmd.keyspace) IN
    /\ h.pc = "exec"
    /\ cmd.op = "Del"
    /\ IF keyspace.ok
       THEN LET del == KeyspaceDel(dbs[keyspace.val], cmd.key) IN
            /\ dbs' = [dbs EXCEPT ![keyspace.val] = del.db]
            /\ written' = LastDel(cmd.keyspace, cmd.key,
                                   IF cmd.key \in DOMAIN dbs[keyspace.val].store
                                   THEN Some(dbs[keyspace.val].store[cmd.key].data)
                                   ELSE None)
            /\ conns' = [conns EXCEPT ![c].pc = "write",
                                      ![c].response = Some(Integer(del.removed))]
       ELSE /\ dbs' = dbs
            /\ written' = written
            /\ conns' = [conns EXCEPT ![c].pc = "write",
                            ![c].response = Some(Error(ExecError(keyspace.err)))]
    /\ UNCHANGED <<keyspaces, next_db, now, server>>

\* What contains_key is not: a test that finds no name.
ContainsKeyNever(name) == FALSE

\* KeyspaceManager::create, its first statement: contains_key.  DashMap locks a
\* shard for this call and again for insert, not across the two.
ContainsKey(name) == name \in DOMAIN keyspaces

\* Create::exec into KeyspaceManager::create up to contains_key: 0 when the name
\* is bound.
CreateContains(c) ==
    LET h == conns[c]
        cmd == h.command.val IN
    /\ h.pc = "exec"
    /\ cmd.op = "Create"
    /\ conns' = [conns EXCEPT ![c] =
                    IF ContainsKey(cmd.keyspace)
                    THEN [h EXCEPT !.pc = "write", !.response = Some(Integer(0))]
                    ELSE [h EXCEPT !.pc = "insert"]]
    /\ UNCHANGED <<keyspaces, dbs, next_db, now, server, written>>

\* The sample size Create::exec hands to create: 0 when the command has none.
CreateSampleSize(cmd) ==
    IF cmd.max_memory_sample_size.some THEN cmd.max_memory_sample_size.val ELSE 0

\* KeyspaceManager::create after contains_key: Keyspace::new, start_evictor and
\* DashMap::insert, which returns the Keyspace the name was bound to, if any;
\* that one is dropped here (impl Drop for Keyspace: Db::shutdown).
CreateInsert(c) ==
    LET h == conns[c]
        cmd == h.command.val
        name == cmd.keyspace
        id == next_db + 1
        keyspace == StartEvictor(DbNew(cmd.evictor, server.max_memory, CreateSampleSize(cmd)))
        replaced == name \in DOMAIN keyspaces
        all == [i \in DOMAIN dbs \cup {id} |->
                   IF i = id THEN keyspace
                   ELSE IF replaced /\ i = keyspaces[name] THEN DbShutdown(dbs[i])
                   ELSE dbs[i]] IN
    /\ h.pc = "insert"
    /\ next_db' = id
    /\ keyspaces' = [n \in DOMAIN keyspaces \cup {name} |->
                        IF n = name THEN id ELSE keyspaces[n]]
    /\ dbs' = Live(all)
    /\ written' = IF replaced THEN Lost({x \in DOMAIN written : x[1] = name})
                  ELSE written
    /\ conns' = [conns EXCEPT ![c].pc = "write", ![c].response = Some(Integer(1))]
    /\ UNCHANGED <<now, server>>

\* The socket takes a frame: it has room.
Writable(h) == Len(h.out) < SockCap

\* The response as written: write_blob, write_null, write_integer or
\* write_error of the exec function, whose Ok(()) takes handle round the loop.
WriteResponse(c) ==
    LET h == conns[c] IN
    /\ h.pc = "write"
    /\ Writable(h)
    /\ conns' = [conns EXCEPT ![c] =
                    [h EXCEPT !.out = Append(@, h.response.val),
                              !.response = None, !.command = None,
                              !.late = IF ListenReady THEN @ + 1 ELSE @,
                              !.pc = LoopTest(h)]]
    /\ UNCHANGED <<keyspaces, dbs, next_db, now, server, written>>

\* handle's own write_error, for a read error or a command::new error, and its
\* `continue`.
WriteError(c) ==
    LET h == conns[c] IN
    /\ h.pc = "write_error"
    /\ Writable(h)
    /\ conns' = [conns EXCEPT ![c] =
                    [h EXCEPT !.out = Append(@, h.response.val),
                              !.response = None,
                              !.pc = Continue(h)]]
    /\ UNCHANGED <<keyspaces, dbs, next_db, now, server, written>>

\* A write to a socket the client has closed fails, and the `?` returns the
\* error from handle.
WriteFail(c) ==
    LET h == conns[c] IN
    /\ h.pc \in {"write", "write_error"}
    /\ h.peer = "closed"
    /\ conns' = [conns EXCEPT ![c] =
                    [h EXCEPT !.response = None, !.command = None, !.pc = "failed"]]
    /\ UNCHANGED <<keyspaces, dbs, next_db, now, server, written>>

---------------------------------------------------------------------------
(* The evictor task of a Db: keyspace.rs,                                  *)
(* start_background_max_memory_evictor.                                    *)

\* The test of the while loop: is_shutdown ends the task.
EvictorLoop(id) ==
    /\ id \in DOMAIN dbs
    /\ dbs[id].task = "loop"
    /\ dbs' = Live([dbs EXCEPT ![id].task = IF dbs[id].shutdown THEN "exited" ELSE "select"])
    /\ UNCHANGED <<keyspaces, next_db, now, conns, server, written>>

\* The notified branch of select! wins: the permit is taken.
EvictorNotified(id) ==
    /\ id \in DOMAIN dbs
    /\ dbs[id].task = "select"
    /\ dbs[id].notifier
    /\ dbs' = [dbs EXCEPT ![id].notifier = FALSE, ![id].task = "loop"]
    /\ UNCHANGED <<keyspaces, next_db, now, conns, server, written>>

\* The sleep branch wins, and sample_and_evict runs up to the store lock: it
\* returns when the Db is shut down or the RSS is below the cap, and else holds
\* access_time = Instant::now().
EvictorSleep(id) ==
    /\ id \in DOMAIN dbs
    /\ dbs[id].task = "select"
    /\ \E reading \in RssReadings :
          dbs' = [dbs EXCEPT ![id] =
                     IF @.shutdown \/ GetRss(reading) < @.server_max_memory
                     THEN [@ EXCEPT !.task = "loop"]
                     ELSE [@ EXCEPT !.task = "sample", !.access_time = now,
                                    !.rusage = Some(reading)]]
    /\ UNCHANGED <<keyspaces, next_db, now, conns, server, written>>

\* sample_and_evict takes the store lock and makes its pass.
EvictorPass(id) ==
    /\ id \in DOMAIN dbs
    /\ dbs[id].task = "sample"
    /\ \E order \in IterOrders(DOMAIN dbs[id].store) :
       \E coins \in [DOMAIN order -> BOOLEAN] :
          LET after == SampleAndEvict(dbs[id], order, coins)
              gone == DOMAIN dbs[id].store \ DOMAIN after.store IN
          /\ dbs' = [dbs EXCEPT ![id] = [after EXCEPT !.task = "loop", !.access_time = 0,
                                                    !.rusage = None]]
          /\ written' = Lost({x \in DOMAIN written :
                                 /\ x[1] \in DOMAIN keyspaces
                                 /\ keyspaces[x[1]] = id
                                 /\ x[2] \in gone})
    /\ UNCHANGED <<keyspaces, next_db, now, conns, server>>

\* The monotonic clock advances.
Tick ==
    /\ now < MaxClock
    /\ now' = now + 1
    /\ UNCHANGED <<keyspaces, dbs, next_db, conns, server, written>>

---------------------------------------------------------------------------
(* The orchestrator: server.rs, start.                                     *)

\* start after its select!: drop(shutdown_notifier), drop(shutdown_complete_tx),
\* and shutdown_complete_rx.recv() awaited.
Shutdown(s) ==
    [s EXCEPT !.shutdown_notifier = FALSE, !.shutdown_complete_tx = FALSE, !.pc = "recv"]

\* The ctrl_c branch of select! wins: Server::start is dropped at its accept.
CtrlC ==
    /\ server.pc = "accept"
    /\ server' = Shutdown(server)
    /\ UNCHANGED <<keyspaces, dbs, next_db, now, conns, written>>

\* listener.accept() fails: Server::start returns the error, which is logged.
AcceptError ==
    /\ server.pc = "accept"
    /\ server' = Shutdown(server)
    /\ UNCHANGED <<keyspaces, dbs, next_db, now, conns, written>>

\* What recv() does not wait for: start's own sender alone.
CompletionClosedOwn == ~server.shutdown_complete_tx

\* shutdown_complete_rx.recv() returns None: no sender is left, neither start's
\* own nor a ConnectionHandler's clone (nothing is ever sent).
CompletionClosed ==
    /\ ~server.shutdown_complete_tx
    /\ \A c \in Conns : ~conns[c].tx

\* start returns Ok(()).
StartReturn ==
    /\ server.pc = "recv"
    /\ CompletionClosed
    /\ server' = [server EXCEPT !.pc = "returned"]
    /\ UNCHANGED <<keyspaces, dbs, next_db, now, conns, written>>

---------------------------------------------------------------------------
(* Specifications.                                                         *)

\* The store under clients that wait for each response, with the evictors.
Next ==
    \/ \E c \in Conns :
          \/ Accept(c)
          \/ ClientRequest(c)
          \/ ClientRecv(c)
          \/ ReadFrame(c)
          \/ GetExec(c)
          \/ SetExec(c)
          \/ DelExec(c)
          \/ CreateContains(c)
          \/ CreateInsert(c)
          \/ WriteResponse(c)
          \/ WriteError(c)
    \/ \E id \in DbIds :
          \/ EvictorLoop(id)
          \/ EvictorNotified(id)
          \/ EvictorSleep(id)
          \/ EvictorPass(id)

Spec == Init /\ [][Next]_vars

\* The connection loop and the shutdown, under clients that send ahead, close
\* and disappear.
NextServer ==
    \/ \E c \in Conns :
          \/ Accept(c)
          \/ ClientPipeline(c)
          \/ ClientRecv(c)
          \/ ClientClose(c)
          \/ ReadFrame(c)
          \/ ReadEof(c)
          \/ SelectShutdown(c)
          \/ GetExec(c)
          \/ CreateContains(c)
          \/ CreateInsert(c)
          \/ WriteResponse(c)
          \/ WriteError(c)
          \/ WriteFail(c)
          \/ TaskExit(c)
    \/ CtrlC
    \/ AcceptError
    \/ StartReturn

ServerSpec == Init /\ [][NextServer]_vars

\* One connection whose client sends bytes, in pieces and with pauses, and
\* closes when it likes.
NextFrame ==
    \/ Accept(Sender)
    \/ ClientRecv(Sender)
    \/ ClientClose(Sender)
    \/ ReadFrameBytes(Sender)
    \/ ReadBuf(Sender)
    \/ ReadClosed(Sender)
    \/ CreateContains(Sender)
    \/ CreateInsert(Sender)
    \/ WriteResponse(Sender)
    \/ WriteError(Sender)
    \/ WriteFail(Sender)
    \/ TaskExit(Sender)

FrameSpec == FrameInit /\ [][NextFrame]_vars

\* One connection whose client sends a header line and what follows it: the
\* read side, with the errors it writes.
NextLine ==
    \/ Accept(Sender)
    \/ ClientRecv(Sender)
    \/ ClientClose(Sender)
    \/ ReadFrameBytes(Sender)
    \/ ReadBuf(Sender)
    \/ ReadClosed(Sender)
    \/ WriteError(Sender)
    \/ WriteFail(Sender)
    \/ TaskExit(Sender)

LineSpec == LineInit /\ [][NextLine]_vars

\* One connection whose client sends requests and then one of Commands: the
\* task from command::new to the response.
NextCommand ==
    \/ Accept(Sender)
    \/ ClientRequest(Sender)
    \/ ClientCommand(Sender)
    \/ ClientRecv(Sender)
    \/ ReadFrame(Sender)
    \/ GetExec(Sender)
    \/ SetExec(Sender)
    \/ DelExec(Sender)
    \/ CreateContains(Sender)
    \/ CreateInsert(Sender)
    \/ WriteResponse(Sender)
    \/ WriteError(Sender)

CommandSpec == Init /\ [][NextCommand]_vars

\* One connection, the evictor tasks of the keyspaces it creates, and the
\* clock.
NextEvictor ==
    \/ Accept(Sender)
    \/ ClientRequest(Sender)
    \/ ClientRecv(Sender)
    \/ ReadFrame(Sender)
    \/ GetExec(Sender)
    \/ SetExec(Sender)
    \/ DelExec(Sender)
    \/ CreateContains(Sender)
    \/ CreateInsert(Sender)
    \/ WriteResponse(Sender)
    \/ WriteError(Sender)
    \/ \E id \in DbIds :
          \/ EvictorLoop(id)
          \/ EvictorSleep(id)
          \/ EvictorPass(id)
    \/ Tick

EvictorSpec == EvictorInit /\ [][NextEvictor]_vars

\* The connections of Spec beside the monotonic clock.
NextClock ==
    \/ \E c \in Conns :
          \/ Accept(c)
          \/ ClientRequest(c)
          \/ ClientRecv(c)
          \/ ReadFrame(c)
          \/ GetExec(c)
          \/ SetExec(c)
          \/ DelExec(c)
          \/ CreateContains(c)
          \/ CreateInsert(c)
          \/ WriteResponse(c)
          \/ WriteError(c)
    \/ Tick

ClockSpec == Init /\ [][NextClock]_vars

\* A pass of the evictor of Db id that removes an entry.
PassEvicts(id) ==
    /\ EvictorPass(id)
    /\ DOMAIN dbs'[id].store # DOMAIN dbs[id].store

\* The runtime polls every evictor task and its sleep completes.  Of the coins
\* of thread_rng: they do not come up 0.5 or more for ever, so of the passes
\* that could remove an entry one does in the end.
FairEvictorSpec ==
    /\ EvictorSpec
    /\ \A id \in DbIds :
          /\ WF_vars(EvictorLoop(id))
          /\ WF_vars(EvictorSleep(id))
          /\ WF_vars(EvictorPass(id))
          /\ SF_vars(PassEvicts(id))

\* The runtime polls every evictor task that is ready: at its loop test, in a
\* pass, or at its select! with the permit of its Notify stored.  The sleep of
\* the select! owes nothing.
FairNotifySpec ==
    /\ Spec
    /\ \A id \in DbIds :
          /\ WF_vars(EvictorLoop(id))
          /\ WF_vars(EvictorNotified(id))
          /\ WF_vars(EvictorPass(id))

\* The evictor task of a keyspace with a store of several keys, beside one
\* connection and the clock.
NextSample ==
    \/ Accept(Sender)
    \/ ClientRequest(Sender)
    \/ ClientRecv(Sender)
    \/ ReadFrame(Sender)
    \/ GetExec(Sender)
    \/ SetExec(Sender)
    \/ DelExec(Sender)
    \/ CreateContains(Sender)
    \/ WriteResponse(Sender)
    \/ WriteError(Sender)
    \/ \E id \in DbIds :
          \/ EvictorLoop(id)
          \/ EvictorSleep(id)
          \/ EvictorPass(id)
    \/ Tick

SampleSpec == SampleInit /\ [][NextSample]_vars

\* The bytes of a text.
BytesOf(text) == [i \in 1..Len(text) |-> SubSeq(text, i, i)]

\* The lengths a Blob header declares: small ones, the sizes of a limb and of
\* 32 bits, the last three of a usize, and the first beyond it.
Lengths ==
    {"0", "1", "3", "65536", "4294967296", "18446744073709551613",
     "18446744073709551614", "18446744073709551615", "18446744073709551616"}

\* What follows the header: up to MaxTail bytes.
Tails == UNION {[1..n -> {"a", CR, LF}] : n \in 0..MaxTail}

\* A server of either build, with a client whose byte stream is a Blob header
\* and a tail.
LengthInit ==
    /\ keyspaces = << >>
    /\ dbs = << >>
    /\ next_db = 0
    /\ now = 0
    /\ \E length \in Lengths, tail \in Tails :
          conns = [c \in Conns |->
                      IF c = Sender
                      THEN [ConnInit EXCEPT
                               !.stream = <<"*">> \o BytesOf(length) \o <<CR, LF>> \o tail]
                      ELSE ConnInit]
    /\ server \in {[ServerInit EXCEPT !.overflow_checks = checks] : checks \in BOOLEAN}
    /\ written = << >>

\* One connection whose client sends a Blob header and a tail: the read side,
\* with the errors it writes and the panic of the parser.
NextLength ==
    \/ Accept(Sender)
    \/ ClientRecv(Sender)
    \/ ClientClose(Sender)
    \/ ReadFrameBytes(Sender)
    \/ ReadBuf(Sender)
    \/ ReadClosed(Sender)
    \/ ReadPanic(Sender)
    \/ WriteError(Sender)
    \/ WriteFail(Sender)
    \/ TaskExit(Sender)

LengthSpec == LengthInit /\ [][NextLength]_vars

\* A step of the task of connection c.
TaskStep(c) ==
    \/ ReadFrame(c)
    \/ ReadEof(c)
    \/ SelectShutdown(c)
    \/ GetExec(c)
    \/ CreateContains(c)
    \/ CreateInsert(c)
    \/ WriteResponse(c)
    \/ WriteError(c)
    \/ WriteFail(c)
    \/ TaskExit(c)

\* A step of start after its select!.
StartStep == StartReturn

\* The runtime polls every task that can make a step; the clients and the
\* shutdown signal owe nothing.
FairServerSpec ==
    /\ ServerSpec
    /\ \A c \in Conns : WF_vars(TaskStep(c))
    /\ WF_vars(StartStep)

\* A step of the task of connection c over the bytes of its socket, when
\* they make no command.
ByteTaskStep(c) ==
    \/ ReadFrameBytes(c)
    \/ ReadBuf(c)
    \/ ReadClosed(c)
    \/ WriteError(c)
    \/ WriteFail(c)
    \/ TaskExit(c)

\* The runtime polls the task whenever it can make a step; the client owes
\* nothing.
FairLineSpec == LineSpec /\ WF_vars(ByteTaskStep(Sender))

---------------------------------------------------------------------------
(* Properties of the store.                                                *)

\* The step in which connection c's command of kind op ends with its response
\* ready to be written.
Executed(c, op) ==
    /\ conns[c].pc \in {"exec", "insert"}
    /\ conns[c].command.val.op = op
    /\ conns'[c].pc = "write"

\* The (keyspace name, key) pair of the key command connection c holds.
KeyOf(c) == <<conns[c].command.val.keyspace, conns[c].command.val.key>>

\* C1: when CREATE commands for one name race on concurrently running
\* connection tasks, only a CREATE that found the name unbound returns 1 and the
\* Keyspace bound to a name is never replaced: no step binds a bound name to
\* another Keyspace.
C1_BoundKeyspaceNeverReplaced ==
    [][/\ \A n \in DOMAIN keyspaces :
             n \in DOMAIN keyspaces' /\ keyspaces'[n] = keyspaces[n]
       /\ \A c \in Conns :
             (Executed(c, "Create") /\ conns'[c].response = Some(Integer(1)))
                => conns[c].command.val.keyspace \notin DOMAIN keyspaces]_vars

\* The latest of the SETs and DELs of the pair is a SET that replaced the value
\* of an earlier SET.
SetTwice(nk) ==
    /\ nk \in DOMAIN written
    /\ written[nk].op = "Set"
    /\ written[nk].prev.some

\* C2, as stated: after SET(ks,k,v1) and SET(ks,k,v2) with no later SET or DEL
\* of k, a GET(ks,k) returns Blob(v2), whatever the evictor of ks.
C2_GetReturnsSecondSet ==
    [][\A c \in Conns :
          (Executed(c, "Get") /\ SetTwice(KeyOf(c)))
             => conns'[c].response = Some(Blob(written[KeyOf(c)].value))]_vars

\* C2, as the code has it: after SET(ks,k,v1) and SET(ks,k,v2) with no later SET
\* or DEL of k, a GET(ks,k) returns Blob(v2) with the bytes of v2, unless since
\* the second SET an eviction pass removed the entry or a racing CREATE replaced
\* the Keyspace bound to ks; then it returns Null.  It returns no other value.
C2_GetReturnsSecondSetUnlessGone ==
    [][\A c \in Conns :
          (Executed(c, "Get") /\ SetTwice(KeyOf(c)))
             => conns'[c].response =
                   Some(IF written[KeyOf(c)].lost THEN Null
                        ELSE Blob(written[KeyOf(c)].value))]_vars

\* A GET answered Blob("v2") after SET v1 and SET v2 of the key.
C2_Witness ==
    \E c \in Conns :
       /\ conns[c].pc = "write"
       /\ conns[c].command.some
       /\ conns[c].command.val.op = "Get"
       /\ conns[c].response = Some(Blob("v2"))
       /\ SetTwice(KeyOf(c))
       /\ written[KeyOf(c)].prev = Some("v1")
       /\ written[KeyOf(c)].value = "v2"

\* The latest of the SETs and DELs of the pair is a DEL.
Deleted(nk) == nk \in DOMAIN written /\ written[nk].op = "Del"

\* C3: DEL of an existing keyspace returns 1 exactly when the key was present at
\* the call and 0 otherwise, and leaves the key absent; after a DEL of the key
\* with no later SET, a GET returns Null and a DEL returns 0.
C3_DelRemoves ==
    [][\A c \in Conns :
          /\ (Executed(c, "Del") /\ KeyOf(c)[1] \in DOMAIN keyspaces)
                => LET id == keyspaces[KeyOf(c)[1]]
                       key == KeyOf(c)[2] IN
                   /\ conns'[c].response =
                         Some(Integer(IF key \in DOMAIN dbs[id].store THEN 1 ELSE 0))
                   /\ key \notin DOMAIN dbs'[id].store
                   /\ Deleted(KeyOf(c)) => conns'[c].response = Some(Integer(0))
          /\ (Executed(c, "Get") /\ Deleted(KeyOf(c)))
                => conns'[c].response = Some(Null)]_vars

\* A DEL answered 0 after a SET of the key and a DEL that removed it.
C3_Witness ==
    \E c \in Conns :
       /\ conns[c].pc = "write"
       /\ conns[c].command.some
       /\ conns[c].command.val.op = "Del"
       /\ conns[c].response = Some(Integer(0))
       /\ Deleted(KeyOf(c))
       /\ written[KeyOf(c)].prev.some

\* The name of the keyspace the command connection c holds.
NameOf(c) == conns[c].command.val.keyspace

\* C4: a CREATE that meets its name bound returns 0 whatever options it carries
\* and leaves every keyspace as it is (its evictor kind, its sample size and its
\* entries); a CREATE executed with the name unbound from start to end returns 1
\* and binds the name to an empty Keyspace with the command's options.
C4_CreateIdempotent ==
    [][\A c \in Conns :
          /\ (/\ conns[c].pc = "exec"
              /\ conns[c].command.val.op = "Create"
              /\ conns'[c].pc # "exec")
                => IF NameOf(c) \in DOMAIN keyspaces
                   THEN /\ conns'[c].pc = "write"
                        /\ conns'[c].response = Some(Integer(0))
                        /\ keyspaces' = keyspaces
                        /\ dbs' = dbs
                   ELSE /\ conns'[c].pc = "insert"
                        /\ keyspaces' = keyspaces
                        /\ dbs' = dbs
          /\ (/\ conns[c].pc = "insert"
              /\ conns'[c].pc = "write"
              /\ NameOf(c) \notin DOMAIN keyspaces)
                => LET cmd == conns[c].command.val
                       db == dbs'[keyspaces'[cmd.keyspace]] IN
                   /\ conns'[c].response = Some(Integer(1))
                   /\ db.evictor = cmd.evictor
                   /\ db.max_memory_sample_size = CreateSampleSize(cmd)
                   /\ db.store = << >>
                   /\ \A n \in DOMAIN keyspaces : keyspaces'[n] = keyspaces[n]]_vars

\* A CREATE answered 0 whose evictor is not the one of the keyspace its name is
\* bound to.
C4_Witness ==
    \E c \in Conns :
       /\ conns[c].pc = "write"
       /\ conns[c].command.some
       /\ conns[c].command.val.op = "Create"
       /\ conns[c].response = Some(Integer(0))
       /\ NameOf(c) \in DOMAIN keyspaces
       /\ dbs[keyspaces[NameOf(c)]].evictor # conns[c].command.val.evictor

\* The step in which a GET, SET or DEL of connection c ends with its response.
KeyCommandExecuted(c) ==
    \E op \in {"Get", "Set", "Del"} : Executed(c, op)

\* C5, as stated: a GET, SET or DEL whose keyspace is not bound has for its one
\* response an Error frame with the text ERREXEC keyspace '<name>' does not
\* exist, and binds no name and changes no store.
C5_MissingKeyspaceClaimedText ==
    [][\A c \in Conns :
          (KeyCommandExecuted(c) /\ NameOf(c) \notin DOMAIN keyspaces)
             => /\ conns'[c].response =
                      Some(Error("ERREXEC keyspace '" \o NameOf(c) \o "' does not exist"))
                /\ conns'[c].out = conns[c].out
                /\ keyspaces' = keyspaces
                /\ dbs' = dbs]_vars

\* C5, as the code has it: a GET, SET or DEL whose keyspace is not bound has for
\* its one response an Error frame with the text ERREXEC ERR keyspace '<name>'
\* does not exist (the error of with_keyspace behind the ERREXEC prefix), and
\* binds no name and changes no store.
C5_MissingKeyspaceError ==
    [][\A c \in Conns :
          (KeyCommandExecuted(c) /\ NameOf(c) \notin DOMAIN keyspaces)
             => /\ conns'[c].response =
                      Some(Error("ERREXEC ERR keyspace '" \o NameOf(c)
                                    \o "' does not exist"))
                /\ conns'[c].out = conns[c].out
                /\ keyspaces' = keyspaces
                /\ dbs' = dbs]_vars

\* A SET of a keyspace never created, with its Error frame about to be written.
C5_Witness ==
    \E c \in Conns :
       /\ conns[c].pc = "write"
       /\ conns[c].command.some
       /\ conns[c].command.val.op = "Set"
       /\ keyspaces = << >>
       /\ next_db = 0
       /\ conns[c].response.val.type = "Error"

---------------------------------------------------------------------------
(* Properties of the connection loop and of the shutdown.                  *)

\* Frame r is a response the code gives to request frame f.
Answers(f, r) ==
    IF f = Garbage THEN r = Error(InvalidFrameText)
    ELSE LET cmd == CommandNew(f) IN
         IF ~cmd.ok THEN r = Error(cmd.err)
         ELSE CASE cmd.val.op = "Create" -> r \in {Integer(0), Integer(1)}
                [] cmd.val.op = "Get" ->
                      \/ r.type \in {"Blob", "Null"}
                      \/ r = Error(ExecError(NoKeyspace(cmd.val.keyspace)))
                [] cmd.val.op = "Set" ->
                      \/ r = Integer(1)
                      \/ r = Error(ExecError(NoKeyspace(cmd.val.keyspace)))
                [] cmd.val.op = "Del" ->
                      \/ r \in {Integer(0), Integer(1)}
                      \/ r = Error(ExecError(NoKeyspace(cmd.val.keyspace)))

\* The frames a task has taken from its buffer and not answered: one or none.
InFlight(h) ==
    IF h.pc \in {"exec", "insert", "write", "write_error", "failed"} THEN 1 ELSE 0

\* C6: on each connection the frames are taken from the buffer in the order
\* they arrived, at most one taken frame is unanswered at any time (the next is
\* not read before the response is written, also when it is already buffered),
\* and the i-th response written answers the i-th frame read.
C6_OneResponsePerFrameInOrder ==
    \A c \in Conns :
       LET h == conns[c]
           done == Len(h.out) IN
       h.pc \notin {"none", "exited"}
          => /\ Len(h.requests) = done + InFlight(h) + Len(h.buffer)
             /\ h.buffer = SubSeq(h.requests, done + InFlight(h) + 1, Len(h.requests))
             /\ \A i \in 1..done : Answers(h.requests[i], h.out[i])
             /\ h.pc \in {"write", "write_error"}
                   => Answers(h.requests[done + 1], h.response.val)
             /\ h.pc \in {"exec", "insert"}
                   => h.command = Some(CommandNew(h.requests[done + 1]).val)

\* Two different frames sent ahead: the response to the first is written and
\* not yet taken by the client, and the response to the second is ready.
C6_Witness ==
    \E c \in Conns :
       /\ conns[c].pc = "write"
       /\ Len(conns[c].requests) = 2
       /\ Len(conns[c].out) = 1
       /\ conns[c].requests[1] # conns[c].requests[2]
       /\ conns[c].out[1] # conns[c].response.val

\* C7: the step that writes an Error frame (for a frame that does not parse, a
\* command parse error or an execution error) takes the task back to the
\* select! of its loop.
C7_LoopAfterError ==
    [][\A c \in Conns :
          (/\ conns[c].pc \in {"write", "write_error"}
           /\ conns[c].response.val.type = "Error"
           /\ Len(conns'[c].out) = Len(conns[c].out) + 1)
             => conns'[c].pc = "select"]_vars

\* One connection has written the Error frame of an execution error and another
\* that of a command parse error, and each has executed a later command, whose
\* Integer response is ready.
C7_Witness ==
    \E c, d \in Conns :
       /\ conns[c].out = << Error(ExecError(NoKeyspace("foo"))) >>
       /\ conns[c].pc = "write"
       /\ conns[c].response.val.type = "Integer"
       /\ Len(conns[d].requests) = 2
       /\ ~CommandNew(conns[d].requests[1]).ok
       /\ conns[d].out = << Error(CommandNew(conns[d].requests[1]).err) >>
       /\ conns[d].pc = "write"
       /\ conns[d].response.val.type = "Integer"

\* C8: start has returned only when every connection task the accept loop
\* spawned has exited and dropped its ConnectionHandler with its completion
\* sender.
C8_ReturnAfterAllTasksExited ==
    server.pc = "returned"
       => \A c \in Conns : conns[c].pc \in {"none", "exited"} /\ ~conns[c].tx

\* start has returned after a connection task ran and exited.
C8_Witness ==
    /\ server.pc = "returned"
    /\ \E c \in Conns : conns[c].pc = "exited"

\* C9: after the broadcast sender is dropped each connection task executes at
\* most one further command, also with complete frames waiting in its buffer:
\* it writes at most one command's response from then on.
C9_AtMostOneCommandAfterShutdown ==
    \A c \in Conns : conns[c].late <= 1

\* C10: once the broadcast sender is dropped, every connection task eventually
\* exits and start eventually returns, whatever each task was doing.
C10_ShutdownCompletes ==
    ListenReady ~> (/\ server.pc = "returned"
                    /\ \A c \in Conns : conns[c].pc \in {"none", "exited"})

\* The task of connection c waits in a write: the socket is full and the client,
\* its end still open, takes nothing.
WriteBlocked(c) ==
    /\ conns[c].pc \in {"write", "write_error"}
    /\ ~Writable(conns[c])
    /\ conns[c].peer = "open"

\* What the code does guarantee of the shutdown: it completes in every fair
\* behavior in which no task stays blocked in a write forever.
ShutdownCompletesUnlessBlocked ==
    (\A c \in Conns : []<>~WriteBlocked(c)) => C10_ShutdownCompletes

---------------------------------------------------------------------------
(* Properties of the evictor and of the store lock.                        *)

\* C11: a Keyspace with evictor Noop has no evictor task, and as long as it
\* exists an entry leaves its store only in the step of a client's DEL of that
\* key, whatever pidrusage reports.
C11_NoopNeverEvicts ==
    [][\A id \in DOMAIN dbs :
          dbs[id].evictor = "Noop"
             => /\ dbs[id].task = "none"
                /\ id \in DOMAIN dbs'
                      => \A k \in DOMAIN dbs[id].store :
                            \/ k \in DOMAIN dbs'[id].store
                            \/ \E c \in Conns :
                                  /\ Executed(c, "Del")
                                  /\ KeyOf(c)[2] = k
                                  /\ KeyOf(c)[1] \in DOMAIN keyspaces
                                  /\ keyspaces[KeyOf(c)[1]] = id]_vars

\* A Keyspace with evictor Noop holds an entry, which a GET has read, while
\* the evictor task of another Keyspace is still running.
C11_Witness ==
    \E c \in Conns, id, other \in DOMAIN dbs :
       /\ dbs[id].evictor = "Noop"
       /\ dbs[id].store # << >>
       /\ dbs[other].evictor # "Noop"
       /\ dbs[other].task # "none"
       /\ conns[c].pc = "write"
       /\ conns[c].response.val.type = "Blob"

\* C12: GET, SET, DEL and an eviction pass are each one step under the store
\* lock of the Keyspace the name is bound to, and in every interleaving a GET
\* returns the value of the latest SET of the key in that Keyspace, or Null
\* when the latest operation on the key there is a DEL, an eviction, or nothing.
C12_GetReturnsLatestInLockOrder ==
    [][\A c \in Conns :
          (Executed(c, "Get") /\ KeyOf(c)[1] \in DOMAIN keyspaces)
             => LET nk == KeyOf(c)
                    stored == /\ nk \in DOMAIN written
                              /\ written[nk].op = "Set"
                              /\ ~written[nk].lost IN
                /\ conns'[c].response =
                      Some(IF stored THEN Blob(written[nk].value) ELSE Null)
                /\ stored <=> nk[2] \in DOMAIN dbs[keyspaces[nk[1]]].store]_vars

\* A GET answered Null because an eviction pass removed the entry a SET wrote
\* into the one Keyspace the name was ever bound to.
C12_Witness ==
    \E c \in Conns :
       /\ conns[c].pc = "write"
       /\ conns[c].command.some
       /\ conns[c].command.val.op = "Get"
       /\ conns[c].response = Some(Null)
       /\ next_db = 1
       /\ KeyOf(c) \in DOMAIN written
       /\ written[KeyOf(c)].op = "Set"
       /\ written[KeyOf(c)].lost

---------------------------------------------------------------------------
(* Properties of the frames, of the parser and of the read side.           *)

\* The class codes of the in-band errors.
ClassCodes == {"ERRPROTOCOL", "ERRPARSE", "ERREXEC"}

\* The text starts with a class code.
HasClassCode(msg) ==
    \E code \in ClassCodes :
       /\ Len(msg) >= Len(code)
       /\ SubSeq(msg, 1, Len(code)) = code

\* C13: every Error frame the server writes to a client starts with one of the
\* class codes ERRPROTOCOL, ERRPARSE or ERREXEC, the answer to a Blob argument
\* that is not UTF-8 and the answer to a read failure included.
C13_ErrorsCarryClassCode ==
    \A c \in Conns :
       \A i \in 1..Len(conns[c].out) :
          conns[c].out[i].type = "Error" => HasClassCode(conns[c].out[i].msg)

\* C14: whenever frame::parse returns IncompleteFrame on the bytes of a read
\* buffer (a header line without its CRLF, a Blob with fewer than N+2 bytes
\* after its header, a Null header with fewer than 2 bytes after it, an Array
\* with a missing or incomplete child), the cursor is at the position it had
\* before the call.
C14_IncompleteLeavesCursor ==
    \A c \in Conns :
       conns[c].pc = "select"
          => LET cursor == Parse(conns[c].bytes, 0) IN
             cursor.res = Err(IncompleteFrame) => cursor.pos = 0

\* a is the beginning of b.
IsPrefix(a, b) == Len(a) <= Len(b) /\ SubSeq(b, 1, Len(a)) = a

\* The byte streams that are one frame, whole, in either build.
FrameStreams ==
    {s \in Streams : \A checks \in BOOLEAN :
                        LET cursor == ParseBuilt(checks, s, 0) IN
                        cursor.res.ok /\ cursor.pos = Len(s)}

\* The bytes are the beginning of a frame, and not all of it.
PartialFrame(bs) ==
    /\ bs # << >>
    /\ \E f \in FrameStreams : Len(bs) < Len(f) /\ IsPrefix(bs, f)

\* The task of connection c is in read_frame with only the beginning of a
\* frame in the buffer.
ReadsPartialFrame(c) == conns[c].pc = "select" /\ PartialFrame(conns[c].bytes)

\* C15 as stated: a step of read_frame on a buffer that holds only a proper
\* prefix of a frame removes no byte from the buffer and returns nothing: the
\* task stays in read_frame with no command to execute and no response to
\* write, and no store changes.
C15_PartialFrameNoEffect ==
    [][\A c \in Conns :
          ReadsPartialFrame(c)
             => /\ IsPrefix(conns[c].bytes, conns'[c].bytes)
                /\ conns'[c].pc = "select"
                /\ conns'[c].command = None
                /\ conns'[c].response = None
                /\ Len(conns'[c].out) <= Len(conns[c].out)
                /\ <<keyspaces, dbs, written>>' = <<keyspaces, dbs, written>>]_vars

\* C15, amended: a step of read_frame on a buffer that holds only a proper
\* prefix of a frame removes no byte from the buffer, returns no frame,
\* executes no command and changes no store; it writes nothing and stays in
\* read_frame as long as the stream is not at its end, and at the end of the
\* stream it returns the reset-by-peer error, which handle writes as an Error
\* frame, with the bytes still in the buffer.
C15_PartialFrameNoEffectUntilClosed ==
    [][\A c \in Conns :
          ReadsPartialFrame(c)
             => /\ IsPrefix(conns[c].bytes, conns'[c].bytes)
                /\ conns'[c].command = None
                /\ Len(conns'[c].out) <= Len(conns[c].out)
                /\ <<keyspaces, dbs, written>>' = <<keyspaces, dbs, written>>
                /\ \/ /\ conns'[c].pc = "select"
                      /\ conns'[c].response = None
                   \/ /\ conns[c].peer = "closed"
                      /\ conns[c].stream = << >>
                      /\ conns'[c].bytes = conns[c].bytes
                      /\ conns'[c].pc = "write_error"
                      /\ conns'[c].response = Some(Error(ResetByPeerText))]_vars

\* The task is in read_frame with a CREATE command short of its last byte in
\* the buffer, which it has read in more than one read_buf, and no keyspace
\* exists.
C15_Witness ==
    /\ conns[Sender].pc = "select"
    /\ conns[Sender].bytes =
          <<"#", "2", CR, LF, "$", "C", "R", "E", "A", "T", "E", CR, LF,
            "$", "f", "o", "o", CR>>
    /\ PartialFrame(conns[Sender].bytes)
    /\ conns[Sender].stream = <<LF>>
    /\ keyspaces = << >>

\* C16: read_frame returns None (and handle returns) exactly when read_buf
\* returned 0, the peer having closed the stream, with an empty buffer; when
\* the stream ends with bytes in the buffer that are no whole frame, read_frame
\* returns the reset-by-peer error, not None, and the bytes stay.
C16_NoneIffClosedWithEmptyBuffer ==
    [][\A c \in Conns :
          conns[c].pc = "select"
             => LET h == conns[c]
                    closed == h.peer = "closed" /\ h.stream = << >>
                    stepped == conns'[c].pc # "select" IN
                /\ conns'[c].pc = "returned" => closed /\ h.bytes = << >>
                /\ closed /\ h.bytes = << >> /\ stepped => conns'[c].pc = "returned"
                /\ closed /\ h.bytes # << >> /\ stepped /\ ParseFrame(h.bytes).res = Ok(None)
                      => /\ conns'[c].pc = "write_error"
                         /\ conns'[c].response = Some(Error(ResetByPeerText))
                         /\ conns'[c].bytes = h.bytes]_vars

\* read_frame has returned None to a task that had read a CREATE command from
\* the same stream and answered it.
C16_Witness ==
    /\ conns[Sender].pc = "returned"
    /\ conns[Sender].peer = "closed"
    /\ conns[Sender].bytes = << >>
    /\ next_db = 1

\* a is the end of b.
IsSuffix(a, b) ==
    Len(a) <= Len(b) /\ SubSeq(b, Len(b) - Len(a) + 1, Len(b)) = a

\* The step in which read_frame fails with InvalidFrame in the task of
\* connection c.
ReportsInvalidFrame(c) ==
    /\ conns[c].pc = "select"
    /\ conns'[c].pc = "write_error"
    /\ conns'[c].response = Some(Error(InvalidFrameText))

\* C17: every read_frame call that fails with InvalidFrame removes at least
\* one byte from the front of the buffer and nothing else, so that the buffer
\* gets shorter with every InvalidFrame and no garbage is reported twice.
C17_InvalidFrameAdvances ==
    [][\A c \in Conns :
          ReportsInvalidFrame(c)
             => /\ Len(conns'[c].bytes) < Len(conns[c].bytes)
                /\ IsSuffix(conns'[c].bytes, conns[c].bytes)]_vars

\* read_frame has failed with InvalidFrame for the second time in a row, on
\* what the first failure left in the buffer, and bytes are left again.
C17_Witness ==
    /\ conns[Sender].pc = "write_error"
    /\ conns[Sender].response = Some(Error(InvalidFrameText))
    /\ conns[Sender].out = <<Error(InvalidFrameText)>>
    /\ conns[Sender].bytes # << >>
    /\ conns[Sender].stream = << >>

\* The bytes of `#1\r\n#0\r\n` and of `#0\r\n`.
NestedArrayBytes == <<"#", "1", CR, LF, "#", "0", CR, LF>>
EmptyArrayBytes == <<"#", "0", CR, LF>>

\* C18: no frame frame::parse returns from the bytes of a read buffer has an
\* Array among the items of an Array; bytes that begin with `#1\r\n#0\r\n`
\* give InvalidFrame, and bytes that begin with `#0\r\n` give the empty Array.
C18_NoNestedArray ==
    \A c \in Conns :
       LET bytes == conns[c].bytes
           cursor == Parse(bytes, 0) IN
       /\ cursor.res.ok /\ cursor.res.val.type = "Array"
             => \A i \in 1..Len(cursor.res.val.items) :
                   cursor.res.val.items[i].type # "Array"
       /\ IsPrefix(NestedArrayBytes, bytes) => cursor.res = Err(InvalidFrame)
       /\ IsPrefix(EmptyArrayBytes, bytes)
             => cursor = [res |-> Ok(Array(<< >>)), pos |-> Len(EmptyArrayBytes)]

\* The task is in read_frame with `#1\r\n#0\r\n` and the beginning of a
\* further Array in the buffer, which frame::parse rejects as a whole, having
\* walked both headers.
C18_Witness ==
    /\ conns[Sender].pc = "select"
    /\ conns[Sender].bytes = NestedArrayBytes \o <<"#", "0">>
    /\ Parse(conns[Sender].bytes, 0) =
          [res |-> Err(InvalidFrame), pos |-> Len(NestedArrayBytes)]

\* C19: for every read buffer from which frame::parse returns a frame, the
\* bytes write_frame emits for that frame parse to the same frame, with the
\* cursor at the end of those bytes.
C19_RoundTrip ==
    \A c \in Conns :
       LET cursor == Parse(conns[c].bytes, 0) IN
       cursor.res.ok
          => LET written_bytes == WriteFrame(cursor.res.val) IN
             /\ written_bytes.ok
             /\ Parse(written_bytes.val, 0) =
                   [res |-> Ok(cursor.res.val), pos |-> Len(written_bytes.val)]

\* The task is in read_frame with an Array of one Integer in the buffer whose
\* line has bytes after the digits: write_frame emits other bytes for the frame
\* than the ones it was parsed from.
C19_Witness ==
    /\ conns[Sender].pc = "select"
    /\ conns[Sender].bytes = <<"#", "1", CR, LF, "%", "-", "1", "2", "x", CR, LF>>
    /\ Parse(conns[Sender].bytes, 0).res = Ok(Array(<<Integer(0 - 12)>>))
    /\ WriteFrame(Array(<<Integer(0 - 12)>>)) =
          Ok(<<"#", "1", CR, LF, "%", "-", "1", "2", CR, LF>>)

\* The header of a Blob of N bytes, for N below 10, and its length.
BlobHeader(N) == <<"*", DigitChars[N + 1], CR, LF>>
BlobHeaderLen == Len(BlobHeader(0))

\* C20: from a read buffer that begins with a Blob header `*N\r\n` and holds at
\* least N+2 bytes after it, frame::parse returns the Blob of exactly the N
\* bytes after the header, whatever they are, and leaves the cursor N+2 bytes
\* past the header.
C20_BlobLengthDecides ==
    \A c \in Conns : \A N \in 0..9 :
       LET bytes == conns[c].bytes IN
       IsPrefix(BlobHeader(N), bytes) /\ Len(bytes) >= BlobHeaderLen + N + 2
          => Parse(bytes, 0) =
                [res |-> Ok(Blob(SubSeq(bytes, BlobHeaderLen + 1, BlobHeaderLen + N))),
                 pos |-> BlobHeaderLen + N + 2]

\* The task is in read_frame with `*3\r\n`, then CR, LF and `$`, then `a`, CR
\* and LF in the buffer: the Blob holds the CR and the LF, the two bytes after
\* it are no CRLF, and the cursor is before the last byte.
C20_Witness ==
    /\ conns[Sender].pc = "select"
    /\ conns[Sender].bytes = <<"*", "3", CR, LF, CR, LF, "$", "a", CR, LF>>
    /\ Parse(conns[Sender].bytes, 0) = [res |-> Ok(Blob(<<CR, LF, "$">>)), pos |-> 9]

\* The header of a Null.
NullHeader == <<"*", "-", "1", CR, LF>>

\* C21: from a read buffer that begins with the Null header `*-1\r\n` and
\* holds a CRLF after it, frame::parse returns Null and leaves the cursor just
\* past that CRLF, whether or not bytes stand between the header and the CRLF,
\* so that a following parse starts at a frame boundary.
C21_NullConsumesThroughCrlf ==
    \A c \in Conns :
       LET bytes == conns[c].bytes
           trailing == GetLine(bytes, Len(NullHeader)) IN
       IsPrefix(NullHeader, bytes) /\ trailing.res.ok
          => Parse(bytes, 0) = [res |-> Ok(Null), pos |-> trailing.pos]

\* The tags of the five kinds of line.
Tags == {"$", "%", "!", "*", "#"}

\* The bytes begin with a decimal number: a digit, or a "-" and a digit.
BeginsWithNumber(body) ==
    /\ body # << >>
    /\ \/ IsDigit(body[1])
       \/ body[1] = "-" /\ Len(body) >= 2 /\ IsDigit(body[2])

\* The bytes begin with a negative decimal number.
BeginsWithNegative(body) == BeginsWithNumber(body) /\ body[1] = "-"

\* C22: from a read buffer that begins with a CRLF-terminated header line,
\* frame::parse returns InvalidFrame when the line is empty, when its tag is
\* none of $ % ! * #, when the length of a Blob or an Array is no number,
\* when the length of a Blob is negative and not -1, when the length of an
\* Array is negative, and when the body of an Integer does not begin with a
\* number; the lines `$` and `!` give the empty String and the empty Error.
C22_InvalidHeaderLines ==
    \A c \in Conns : \A line \in HeaderLines :
       IsPrefix(line \o <<CR, LF>>, conns[c].bytes)
          => LET res == Parse(conns[c].bytes, 0).res
                 tag == line[1]
                 body == Tail(line) IN
             /\ line = << >> => res = Err(InvalidFrame)
             /\ line # << >> /\ tag \notin Tags => res = Err(InvalidFrame)
             /\ line # << >> /\ tag \in {"*", "#"} /\ ~BeginsWithNumber(body)
                   => res = Err(InvalidFrame)
             /\ line # << >> /\ tag = "*" /\ BeginsWithNegative(body)
                   /\ body # <<"-", "1">>
                   => res = Err(InvalidFrame)
             /\ line # << >> /\ tag = "#" /\ BeginsWithNegative(body)
                   => res = Err(InvalidFrame)
             /\ line # << >> /\ tag = "%" /\ ~BeginsWithNumber(body)
                   => res = Err(InvalidFrame)
             /\ line = <<"$">> => res = Ok(String(<< >>))
             /\ line = <<"!">> => res = Ok(Error(<< >>))

\* read_frame has failed with InvalidFrame on the header line `*-10`, a Blob
\* length that is negative and not -1, and the frame after that line is what
\* is left in the buffer and in the stream.
C22_Witness ==
    /\ conns[Sender].pc = "write_error"
    /\ conns[Sender].response = Some(Error(InvalidFrameText))
    /\ conns[Sender].bytes \o conns[Sender].stream = Pieces[1]
    /\ conns[Sender].bytes # << >>
    /\ \E first \in LineStreams :
          /\ first = <<"*", "-", "1", "0", CR, LF>> \o Pieces[1]
          /\ Parse(first, 0) = [res |-> Err(InvalidFrame), pos |-> 6]

---------------------------------------------------------------------------
(* Properties of the command layer.                                        *)

\* The text of a String frame, and of a Blob frame that is UTF-8.
IsToken(f) ==
    \/ f.type = "String"
    \/ f.type = "Blob" /\ f.bytes \notin InvalidUtf8

TokenText(f) == IF f.type = "String" THEN f.text ELSE f.bytes

\* The decimal numerals of the option pairs, and their values.
Numerals == {"0", "1", "2", "100"}

NumeralValue(s) ==
    CASE s = "0" -> 0 [] s = "1" -> 1 [] s = "2" -> 2 [] s = "100" -> 100

\* The evictor a word names, whatever its case.
EvictorNamed(word) ==
    CASE ToUpper(word) = "RANDOM" -> "Random"
      [] ToUpper(word) = "LRU"    -> "Lru"

\* Tokens i and i + 1 are the option EV with RANDOM or LRU; the option SS with
\* a numeral.
IsEv(words, i) ==
    ToUpper(words[i]) = "EV" /\ ToUpper(words[i + 1]) \in {"RANDOM", "LRU"}

IsSs(words, i) ==
    ToUpper(words[i]) = "SS" /\ words[i + 1] \in Numerals

\* The frame is CREATE in any case, a keyspace name, and the tokens of the
\* cases named: no option; EV alone; EV and SS, in this order or the other.
WellFormedCreate(f) ==
    /\ f.type = "Array"
    /\ Len(f.items) \in {2, 4, 6}
    /\ \A i \in 1..Len(f.items) : IsToken(f.items[i])
    /\ ToUpper(TokenText(f.items[1])) = "CREATE"
    /\ LET words == [i \in 1..Len(f.items) |-> TokenText(f.items[i])] IN
       \/ Len(words) = 2
       \/ Len(words) = 4 /\ IsEv(words, 3)
       \/ Len(words) = 6 /\ IsEv(words, 3) /\ IsSs(words, 5)
       \/ Len(words) = 6 /\ IsSs(words, 3) /\ IsEv(words, 5)

\* The command the three cases name for a well-formed CREATE.
NamedCreate(f) ==
    LET words == [i \in 1..Len(f.items) |-> TokenText(f.items[i])]
        create == [op |-> "Create", keyspace |-> words[2]] IN
    CASE Len(words) = 2 ->
           create @@ [evictor |-> "Noop", max_memory_sample_size |-> None]
      [] Len(words) = 4 ->
           create @@ [evictor |-> EvictorNamed(words[4]),
                      max_memory_sample_size |-> Some(3)]
      [] Len(words) = 6 /\ IsEv(words, 3) ->
           create @@ [evictor |-> EvictorNamed(words[4]),
                      max_memory_sample_size |-> Some(NumeralValue(words[6]))]
      [] OTHER ->
           create @@ [evictor |-> EvictorNamed(words[6]),
                      max_memory_sample_size |-> Some(NumeralValue(words[4]))]

\* The task of c takes the frame at the head of its buffer to command::new.
TakesFrame(c) ==
    /\ conns[c].pc = "select"
    /\ conns[c].buffer # << >>
    /\ Head(conns[c].buffer) # Garbage
    /\ conns'[c].buffer = Tail(conns[c].buffer)
    /\ conns'[c].pc \in {"exec", "write_error"}

\* C23: a well-formed CREATE parses to evictor Noop and no sample size when no
\* option is given, to the named evictor with sample size 3 when EV RANDOM or
\* EV LRU is given without SS, and to the named evictor with sample size N
\* when SS N is given too; names and values in any case, the two pairs in
\* either order.
C23_WellFormedCreateParses ==
    [][\A c \in Conns :
          TakesFrame(c) /\ WellFormedCreate(Head(conns[c].buffer))
             => /\ conns'[c].pc = "exec"
                /\ conns'[c].command = Some(NamedCreate(Head(conns[c].buffer)))]_vars

\* command::new has parsed `create foo ss 2 ev lru`, the options in the other
\* order, in lower case and the numeral a Blob, to evictor Lru with sample
\* size 2.
C23_Witness ==
    /\ conns[Sender].pc = "exec"
    /\ conns[Sender].requests =
          <<Array(<<String("create"), Blob("foo"), String("ss"), Blob("2"),
                    String("ev"), String("lru")>>)>>
    /\ WellFormedCreate(conns[Sender].requests[1])
    /\ conns[Sender].command =
          Some([op |-> "Create", keyspace |-> "foo", evictor |-> "Lru",
                max_memory_sample_size |-> Some(2)])

\* The text starts with ERRPARSE.
IsErrParse(msg) ==
    Len(msg) >= Len("ERRPARSE") /\ SubSeq(msg, 1, Len("ERRPARSE")) = "ERRPARSE"

\* The frame is an Array whose first child names the command, in any case.
Names(f, command) ==
    /\ f.type = "Array"
    /\ f.items # << >>
    /\ IsToken(f.items[1])
    /\ ToUpper(TokenText(f.items[1])) = command

\* Option token i is the word, in any case.
OptionIs(options, i, words) ==
    IsToken(options[i]) /\ ToUpper(TokenText(options[i])) \in words

\* The cases in which CREATE is to be rejected, on the frames after the
\* command name: no keyspace name; an odd number of option tokens; more than 4
\* of them; an option name that is neither EV nor SS; an EV value that is no
\* evictor; an SS value that is no numeral; SS with the evictor Noop, named or
\* by default.
RejectedCreate(f) ==
    /\ Names(f, "CREATE")
    /\ LET options == SubSeq(f.items, 3, Len(f.items))
           names == {i \in 1..Len(options) : i % 2 = 1}
           pairs == {i \in names : i < Len(options)} IN
       \/ Len(f.items) = 1
       \/ Len(options) % 2 = 1
       \/ Len(options) > 4
       \/ \E i \in names : ~OptionIs(options, i, {"EV", "SS"})
       \/ \E i \in pairs :
             /\ OptionIs(options, i, {"EV"})
             /\ ~OptionIs(options, i + 1, {"RANDOM", "NOOP", "LRU"})
       \/ \E i \in pairs :
             /\ OptionIs(options, i, {"SS"})
             /\ ~(IsToken(options[i + 1]) /\ TokenText(options[i + 1]) \in Numerals)
       \/ /\ \E i \in pairs : OptionIs(options, i, {"SS"})
          /\ \/ \A i \in pairs : ~OptionIs(options, i, {"EV"})
             \/ \E i \in pairs : /\ OptionIs(options, i, {"EV"})
                                 /\ OptionIs(options, i + 1, {"NOOP"})

\* command::new has refused the frame with an ERRPARSE error.
RefusedWithErrParse(h) ==
    /\ h.pc = "write_error"
    /\ h.response.some
    /\ h.response.val.type = "Error"
    /\ IsErrParse(h.response.val.msg)

\* C24: CREATE is rejected with an ERRPARSE error, and no keyspace is created,
\* when the keyspace name is missing, the number of option tokens is odd or
\* more than 4, an option name is neither EV nor SS, the EV value is not
\* RANDOM, NOOP or LRU, the SS value is not a non-negative decimal integer, or
\* SS is given while the evictor is Noop.
C24_CreateRejected ==
    [][\A c \in Conns :
          /\ TakesFrame(c) /\ RejectedCreate(Head(conns[c].buffer))
                => RefusedWithErrParse(conns'[c])
          /\ conns[c].pc = "write_error"
                => keyspaces' = keyspaces /\ dbs' = dbs]_vars

\* The names of the commands, and the number of arguments GET, DEL and SET
\* take.
CommandNames == {"GET", "SET", "DEL", "CREATE"}

Arity(command) == IF command = "SET" THEN 3 ELSE 2

\* The frame is no command: no Array, the empty Array, an Array whose first
\* child names no command, or GET, DEL or SET with an argument missing or
\* with one too many.
NoCommand(f) ==
    \/ f.type # "Array"
    \/ f.items = << >>
    \/ \A command \in CommandNames : ~Names(f, command)
    \/ \E command \in {"GET", "DEL", "SET"} :
          Names(f, command) /\ Len(f.items) - 1 # Arity(command)

\* C25: command::new accepts a frame only if it is an Array whose first child
\* names GET, SET, DEL or CREATE in any case, followed by exactly 2 arguments
\* for GET and DEL and exactly 3 for SET; a frame that is no Array, an empty
\* Array, an unknown command name, a missing argument and an extra argument
\* give an ERRPARSE error, and no store or keyspace changes.
C25_CommandNewAccepts ==
    [][\A c \in Conns :
          /\ TakesFrame(c) /\ conns'[c].pc = "exec"
                => ~NoCommand(Head(conns[c].buffer))
          /\ TakesFrame(c) /\ NoCommand(Head(conns[c].buffer))
                => RefusedWithErrParse(conns'[c])
          /\ conns[c].pc = "write_error"
                => keyspaces' = keyspaces /\ dbs' = dbs]_vars

---------------------------------------------------------------------------
(* Properties of the evictor.                                              *)

\* The bytes of a kilobyte and of a megabyte.
Kilobyte == 1024

Megabyte == 1024 * 1024

\* The resident-set size in bytes that an observation stands for: kilobytes on
\* Linux, bytes elsewhere, and 0 when the observation failed.
ResidentBytes(reading) ==
    IF ~reading.ok THEN 0
    ELSE IF server.target_os = "linux" THEN reading.val * Kilobyte
    ELSE reading.val

\* The cap of a Db in bytes: --max-memory is in megabytes.
CapBytes(db) == db.server_max_memory * Megabyte

\* The evictor of Db id removes an entry in this step.
Evicts(id) ==
    /\ id \in DOMAIN dbs
    /\ id \in DOMAIN dbs'
    /\ dbs[id].task = "sample"
    /\ DOMAIN dbs'[id].store # DOMAIN dbs[id].store

\* C26: a sample-and-evict pass removes an entry only when the resident-set
\* size in bytes is at least the cap in bytes, the cap being --max-memory
\* megabytes and the size, on Linux, the kilobytes observed times 1024.
C26_EvictsOnlyAtOrAboveCap ==
    [][\A id \in DbIds :
          Evicts(id) => ResidentBytes(dbs[id].rusage.val) >= CapBytes(dbs[id])]_vars

\* C27: when the memory observation fails, get_rss reports 0 and the evictor
\* removes no entry in that pass, whatever the cap is, a cap of 0 included.
C27_FailedObservationEvictsNothing ==
    [][/\ \A reading \in RssReadings : ~reading.ok => GetRss(reading) = 0
       /\ \A id \in DbIds : Evicts(id) => dbs[id].rusage.val.ok]_vars

\* The task of c executes the command op on a keyspace that is bound.
ExecutesOn(c, op) ==
    /\ conns[c].pc = "exec"
    /\ conns'[c].pc = "write"
    /\ conns[c].command.val.op = op
    /\ conns[c].command.val.keyspace \in DOMAIN keyspaces

\* C28: the last_accessed of the entry stored under a key never decreases while
\* the entry lives: SET sets it when it inserts or replaces the value, each GET
\* that finds the entry refreshes it, and the new timestamp is at least the one
\* it replaces, whatever the interleaving of the connection tasks.
C28_LastAccessedNeverDecreases ==
    [][/\ \A id \in DOMAIN dbs \cap DOMAIN dbs' :
          \A key \in DOMAIN dbs[id].store \cap DOMAIN dbs'[id].store :
             dbs'[id].store[key].last_accessed >= dbs[id].store[key].last_accessed
       /\ \A c \in Conns :
             LET cmd == conns[c].command.val
                 id == keyspaces[cmd.keyspace] IN
             /\ ExecutesOn(c, "Set")
                   => /\ cmd.key \in DOMAIN dbs'[id].store
                      /\ dbs'[id].store[cmd.key].last_accessed = now
             /\ ExecutesOn(c, "Get") /\ cmd.key \in DOMAIN dbs[id].store
                   => dbs'[id].store[cmd.key].last_accessed = now]_vars

\* A GET has refreshed, at the clock's last reading, the entry a SET stored at
\* its first, and a second SET is about to replace the value.
C28_Witness ==
    /\ now = MaxClock
    /\ \E id \in DOMAIN dbs :
          /\ "k1" \in DOMAIN dbs[id].store
          /\ dbs[id].store["k1"].last_accessed = MaxClock
    /\ \E c, d \in Conns :
          /\ conns[c].pc = "write"
          /\ conns[c].command = Some([op |-> "Get", keyspace |-> "foo", key |-> "k1"])
          /\ conns[c].response.val.type = "Blob"
          /\ conns[d].pc = "exec"
          /\ conns[d].command.val.op = "Set"

\* The evictor task of Db id is running: spawned and not yet returned.
EvictorRuns(id) == dbs[id].task \in {"loop", "select", "sample"}

\* Db id is the Db of a keyspace bound to a name in the manager.
Bound(id) == \E name \in DOMAIN keyspaces : keyspaces[name] = id

\* C29: in every reachable state the running evictor tasks are in one-to-one
\* correspondence with the Random and Lru keyspaces bound in the manager: each
\* of those has its evictor task running, a Noop keyspace has none, and no
\* evictor task runs for a Keyspace that is bound to no name.
C29_EvictorTasksMatchBoundKeyspaces ==
    \A id \in DOMAIN dbs :
       EvictorRuns(id) <=> Bound(id) /\ dbs[id].evictor \in {"Random", "Lru"}

\* sample_and_evict of Db id returns at its test of the RSS: the observation
\* is below the cap.
BelowCap(id) ==
    /\ id \in DOMAIN dbs
    /\ id \in DOMAIN dbs'
    /\ dbs[id].task = "select"
    /\ dbs'[id].task = "loop"
    /\ ~dbs[id].shutdown

\* Db id is the Db of a bound Random or Lru keyspace whose sample size is at
\* least 1.
Sampling(id) ==
    /\ id \in DOMAIN dbs
    /\ Bound(id)
    /\ dbs[id].evictor \in {"Random", "Lru"}
    /\ dbs[id].max_memory_sample_size >= 1

Passes(id) ==
    /\ id \in DOMAIN dbs
    /\ dbs[id].task = "sample"
    /\ id \in DOMAIN dbs'
    /\ dbs'[id].task = "loop"

\* C31: one sample-and-evict pass removes at most one entry from the store of
\* its keyspace and leaves every other entry as it was, key, data and
\* last_accessed, however far the RSS is above the cap; it touches the store
\* of no other keyspace.
C31_PassRemovesAtMostOne ==
    [][\A id \in DbIds :
          Passes(id)
             => /\ DOMAIN dbs'[id].store \subseteq DOMAIN dbs[id].store
                /\ Cardinality(DOMAIN dbs[id].store \ DOMAIN dbs'[id].store) <= 1
                /\ \A key \in DOMAIN dbs'[id].store :
                      dbs'[id].store[key] = dbs[id].store[key]
                /\ \A other \in DOMAIN dbs \ {id} :
                      /\ other \in DOMAIN dbs'
                      /\ dbs'[other].store = dbs[other].store]_vars

\* A pass made under an RSS of 1024 times the cap has removed one of the three
\* keys of foo; the two others and the key of bar are stored.
C31_Witness ==
    /\ 1 \in DOMAIN dbs
    /\ dbs[1].task = "loop"
    /\ Cardinality(DOMAIN dbs[1].store) = 2
    /\ Cardinality({key \in Keys : /\ <<"foo", key>> \in DOMAIN written
                                   /\ written[<<"foo", key>>].lost}) = 1
    /\ \A key \in Keys : <<"foo", key>> \in DOMAIN written
    /\ "k1" \in DOMAIN dbs[2].store
    /\ GetRss(Ok(1024 * 1024)) = 1024 * dbs[1].server_max_memory

\* The key a pass over Db db removes when the store is iterated in this
\* order with these coins.
Removed(db, order, coins) == SampleWalk(db, order, coins, 0, None, db.access_time)

\* S, the number of entries a pass samples.
SampleCount(db) == Min(db.max_memory_sample_size, Cardinality(DOMAIN db.store))

\* The place of a key in an iteration order.
Place(order, key) == CHOOSE i \in DOMAIN order : order[i] = key

\* The passes a Db at its store lock can make: the iteration orders of its
\* store and the coins drawn.
Walks(db) ==
    {<<order, coins>> : order \in IterOrders(DOMAIN db.store),
                        coins \in [1..Cardinality(DOMAIN db.store) -> BOOLEAN]}

\* C32: when an Lru pass removes a key, the last_accessed of that key is at
\* most that of every other entry among the first S = min(sample size, store
\* size) entries in iteration order, and of the sampled entries that share
\* the minimum the one iterated last is removed.
C32_LruRemovesOldestSampled ==
    \A id \in DOMAIN dbs :
       dbs[id].task = "sample" /\ dbs[id].evictor = "Lru"
          => \A walk \in Walks(dbs[id]) :
                LET db == dbs[id]
                    order == walk[1]
                    key == Removed(db, order, walk[2]) IN
                key.some
                   => \A i \in 1..SampleCount(db) :
                         /\ db.store[key.val].last_accessed
                               <= db.store[order[i]].last_accessed
                         /\ db.store[order[i]].last_accessed
                               = db.store[key.val].last_accessed
                               => i <= Place(order, key.val)

\* An Lru pass of sample size 2 is at the lock of a store of three keys, k1 and
\* k2 last accessed at 0 and k3 none the older; iterated as k1, k2, k3 it
\* removes k2, and iterated as k3, k2, k1 it removes k2 too.
C32_Witness ==
    /\ 1 \in DOMAIN dbs
    /\ dbs[1].task = "sample"
    /\ dbs[1].evictor = "Lru"
    /\ dbs[1].max_memory_sample_size = 2
    /\ DOMAIN dbs[1].store = Keys
    /\ dbs[1].store["k1"].last_accessed = 0
    /\ dbs[1].store["k2"].last_accessed = 0
    /\ dbs[1].store["k3"].last_accessed = MaxClock
    /\ Removed(dbs[1], <<"k1", "k2", "k3">>, [i \in 1..3 |-> FALSE]) = Some("k2")
    /\ Removed(dbs[1], <<"k3", "k2", "k1">>, [i \in 1..3 |-> FALSE]) = Some("k2")

\* C33: for Random and for Lru and for every sample size, 0 included, the key
\* a pass removes is one of the first S = min(sample size, store size)
\* entries in the store's iteration order; when S is 0 the pass removes
\* nothing.
C33_RemovedKeyIsSampled ==
    \A id \in DOMAIN dbs :
       dbs[id].task = "sample"
          => \A walk \in Walks(dbs[id]) :
                LET key == Removed(dbs[id], walk[1], walk[2]) IN
                key.some
                   => \E i \in 1..SampleCount(dbs[id]) : walk[1][i] = key.val

\* A Random pass of sample size 2 is at the lock of a store of three keys:
\* with every coin below 0.5 it removes the second entry iterated, and
\* whatever the order and the coins never the third.
C33_Witness ==
    /\ 1 \in DOMAIN dbs
    /\ dbs[1].task = "sample"
    /\ dbs[1].evictor = "Random"
    /\ dbs[1].max_memory_sample_size = 2
    /\ DOMAIN dbs[1].store = Keys
    /\ Removed(dbs[1], <<"k3", "k1", "k2">>, [i \in 1..3 |-> TRUE]) = Some("k1")
    /\ \A walk \in Walks(dbs[1]) : Removed(dbs[1], walk[1], walk[2]) # Some(walk[1][3])

\* C34: a pass that ends without removing a key, although the RSS is at or
\* above the cap, the store is not empty and the sample size is at least 1,
\* happens only on a Random keyspace: on an Lru keyspace such a pass removes
\* exactly one entry, whatever GETs and SETs on the keyspace run beside it.
C34_LruPassAlwaysRemoves ==
    [][\A id \in DbIds :
          /\ Passes(id)
          /\ dbs[id].evictor = "Lru"
          /\ dbs[id].store # << >>
          /\ dbs[id].max_memory_sample_size >= 1
          => Cardinality(DOMAIN dbs[id].store \ DOMAIN dbs'[id].store) = 1]_vars

\* The Db objects whose Keyspace has been dropped and whose evictor task is
\* still there.
ShutDown(id) == id \in DOMAIN dbs /\ dbs[id].shutdown

\* C35: the shutdown flag of a Db goes from false to true only; a Db whose flag
\* is set has its evictor task leave the loop in the end, wherever the task
\* was when the flag was set and the notifier fired, and a task that has left
\* never runs again.
C35_ShutdownEndsEvictor ==
    /\ [][\A id \in DbIds : ShutDown(id) => (id \notin DOMAIN dbs' \/ dbs'[id].shutdown)]_vars
    /\ \A id \in DbIds : ShutDown(id) ~> (id \notin DOMAIN dbs)
    /\ [][\A id \in DbIds : (id <= next_db /\ id \notin DOMAIN dbs) => id \notin DOMAIN dbs']_vars

\* The flag was set and the notifier fired while the task was between its test
\* of the flag and its wait: the permit is there for the select!.
C35_Witness ==
    \E id \in DbIds :
       /\ ShutDown(id)
       /\ dbs[id].task = "select"
       /\ dbs[id].notifier

---------------------------------------------------------------------------
(* Properties of the Blob length.                                          *)

\* The header of a Blob of the length a numeral spells.
LengthHeader(numeral) == <<"*">> \o BytesOf(numeral) \o <<CR, LF>>

\* The numeral of 2^64 - 1.
WordMaxNumeral == BytesOf("18446744073709551615")

\* a <= b for two numerals without leading zeros, digit by digit.
NumeralAtMost(a, b) ==
    \/ Len(a) < Len(b)
    \/ /\ Len(a) = Len(b)
       /\ \/ a = b
          \/ \E i \in 1..Len(a) :
                /\ \A j \in 1..(i - 1) : a[j] = b[j]
                /\ DigitValue(a[i]) < DigitValue(b[i])

\* The length is within the machine word: 0 <= N < 2^64.
WithinWord(numeral) == NumeralAtMost(BytesOf(numeral), WordMaxNumeral)

\* Fewer than N + 2 bytes, in the integers: the buffers of the model hold
\* fewer bytes than any numeral of ten digits or more spells.
FewerThanBlob(follow, numeral) ==
    Len(numeral) < 10 => follow < Radix10(BytesOf(numeral), Len(numeral)) + 2

\* C36: from a read buffer that begins with a Blob header `*N\r\n` whose N is
\* within the machine word (0 <= N < 2^64) and that holds fewer than N+2 bytes
\* after the header, frame::parse returns IncompleteFrame: no Blob, no other
\* error, no panic, as if N+2 were computed without wrap-around.
C36_ShortBlobIsIncomplete ==
    \A c \in Conns : \A numeral \in Lengths :
       LET bytes == conns[c].bytes
           follow == Len(bytes) - Len(LengthHeader(numeral)) IN
       /\ IsPrefix(LengthHeader(numeral), bytes)
       /\ WithinWord(numeral)
       /\ FewerThanBlob(follow, numeral)
       => Parse(bytes, 0).res = Err(IncompleteFrame)

---------------------------------------------------------------------------
(* Properties of the end of a stream.                                      *)

\* The peer of connection c has closed its sending side.
PeerClosed(c) == conns[c].pc # "none" /\ conns[c].peer = "closed"

\* The task of connection c has returned and its ConnectionHandler, with the
\* completion sender, is dropped.
Released(c) == conns[c].pc = "exited" /\ ~conns[c].tx

\* C37: once the peer has closed its sending side the task of the connection
\* returns in the end and its handler is dropped with the completion sender,
\* with no shutdown signal (none is sent here), whether the read buffer was
\* empty at the close or held an unfinished frame.
C37_ClosedPeerEndsTask == \A c \in Conns : PeerClosed(c) ~> Released(c)

---------------------------------------------------------------------------
(* Properties of the reads of a stream.                                    *)

\* The bytes of connection h that no result of read_frame has consumed: the
\* ones in its buffer and the ones still to be read.
Unread(h) == h.bytes \o h.stream

\* What read_frame returns first, and the bytes it leaves, when the whole of
\* the unread bytes is delivered in one read.
OneRead(h) == ParseFrame(Unread(h))

\* C38: the results of read_frame do not depend on how the stream is split
\* across reads.  A read that brings no result loses no byte; and every frame
\* or InvalidFrame that read_frame returns from the bytes read so far, with
\* the bytes it consumes, is the one it returns when all the bytes of the
\* stream are delivered in one read.  By induction over the results, any two
\* deliveries of one stream give the same sequence of results and the same
\* bytes consumed for each.
C38_SplitReadsAgree ==
    [][\A c \in Conns :
          /\ ReadBuf(c) => Unread(conns'[c]) = Unread(conns[c])
          /\ ReadFrameBytes(c) =>
                /\ ParseFrame(conns[c].bytes).res = OneRead(conns[c]).res
                /\ Unread(conns'[c]) = OneRead(conns[c]).buffer]_vars

\* The task is in read_frame after it has answered an earlier result, with
\* the start of a frame in the buffer and the rest of it still to be read.
C38_Witness ==
    LET h == conns[Sender] IN
    /\ h.pc = "select"
    /\ h.out # << >>
    /\ h.bytes # << >>
    /\ h.stream # << >>
    /\ ParseFrame(h.bytes).res = Ok(None)
    /\ OneRead(h).res.ok
    /\ OneRead(h).res.val.some

====
